---- MODULE Spec2Model ----
(***************************************************************************)
(* Model of the coin-join participant of ticketbuyer (src/coinjoin.go):    *)
(* the CsppJoin skeleton, its operations addTxIn, Gen, Confirm,            *)
(* MarshalBinary and UnmarshalBinary, and the output search                *)
(* constantTimeOutputSearch.                                               *)
(*                                                                         *)
(* Data.  A script is a sequence of bytes.  An outpoint is a number.  A    *)
(* transaction input is a record [op, seq, valueIn, sig], an output is a   *)
(* record [value, version, script], a transaction is a record              *)
(* [version, TxIn, TxOut].  Go slices are sequences; indexes stored in the *)
(* state (txInputs, genIndex) are 0-based as in the source, so element i   *)
(* of a Go slice s is s[i + 1] here.  A nil pointer or slice is the empty  *)
(* sequence, a nil map is the function with empty domain.                  *)
(***************************************************************************)
EXTENDS Integers, Sequences, FiniteSets, TLC

(***************************************************************************)
(* Bounds of the model.                                                    *)
(***************************************************************************)
\* most outputs of the candidate transaction handed to the search
MaxSearchOuts == 3
\* most expected scripts handed to the search
MaxSearchScripts == 2
\* most inputs a participant adds to its skeleton
MaxIns == 2
\* most inputs of a joined transaction received from the mix
MaxJoinIns == 2
\* most outputs of a joined transaction received from the mix
MaxJoinOuts == 2
\* most unspent outputs the wallet lists to the fee builder
MaxUtxos == 3
\* most notifications the wallet sends to the ticket buyer
MaxNotifications == 2

(***************************************************************************)
(* Values the inputs are drawn from.                                       *)
(***************************************************************************)
Values == {0, 1}
ScriptVersions == {0, 1}

\* scripts of the search's inputs: two lengths, equal lengths with other bytes
SearchScripts == {<<1>>, <<2>>, <<1, 1>>}
SearchOuts ==
  {[value |-> 1, version |-> 0, script |-> s] : s \in SearchScripts}
    \cup {[value |-> 0, version |-> 0, script |-> <<1>>],
          [value |-> 1, version |-> 1, script |-> <<1>>]}

\* every sequence over S of length at most n
SeqsUpTo(S, n) == UNION {[1..k -> S] : k \in 0..n}

\* The participant's inputs, each with its previous output script: a
\* pay-to-pubkey-hash, a multisig and a pay-to-pubkey previous output.
InA == [op |-> 1, seq |-> 0, valueIn |-> 1, sig |-> <<>>]
InB == [op |-> 2, seq |-> 0, valueIn |-> 1, sig |-> <<>>]
ArgP2PKH == <<<<1, 5>>, InA>>
ArgMultiSig == <<<<3, 5>>, InB>>
ArgP2PK == <<<<2, 5>>, InB>>
OwnArgs == {ArgP2PKH, ArgMultiSig, ArgP2PK}

\* The inputs of joined transactions: the participant's, and inputs with
\* the outpoint of InA and another Sequence or another ValueIn.
JoinIns == {InA, InB, [InA EXCEPT !.seq = 1], [InA EXCEPT !.valueIn = 0]}

\* The scripts Gen may receive from the wallet, the declared change output
\* and the outputs of joined transactions: the change, the mixed outputs,
\* and outputs with a mixed script and another value or script version.
GenScripts == {<<1, 1>>, <<1, 2>>}
MixAmounts == {1}
ChangeOut == [value |-> 1, version |-> 0, script |-> <<1, 3>>]
JoinOuts ==
  {ChangeOut,
   [value |-> 1, version |-> 0, script |-> <<1, 1>>],
   [value |-> 0, version |-> 0, script |-> <<1, 1>>],
   [value |-> 1, version |-> 1, script |-> <<1, 1>>]}

(***************************************************************************)
(* crypto/subtle, as used by the search.                                   *)
(***************************************************************************)
\* 1 if the two byte slices are equal, 0 otherwise
ConstantTimeCompare(x, y) == IF x = y THEN 1 ELSE 0

\* x if v = 1, y if v = 0
ConstantTimeSelect(v, x, y) == IF v = 1 THEN x ELSE y

\* 1 if x = y, 0 otherwise
ConstantTimeEq(x, y) == IF x = y THEN 1 ELSE 0

(***************************************************************************)
(* constantTimeOutputSearch (src/coinjoin.go:183-213).                     *)
(***************************************************************************)
\* ScanFrom without the filter on the script version (with no scripts there
\* is nothing to scan for).
RECURSIVE ScanFrom_NoVersion(_, _, _, _, _)
ScanFrom_NoVersion(outs, value, scriptVer, scripts, i) ==
  IF i > Len(outs) \/ scripts = <<>> THEN <<>>
  ELSE LET out == outs[i]
           rest == ScanFrom_NoVersion(outs, value, scriptVer, scripts, i + 1)
       IN IF out.value # value THEN rest
          ELSE IF Len(out.script) # Len(scripts[1]) THEN rest
          ELSE <<i - 1>> \o rest

\* Lines 185-196: the indexes (0-based) of the outputs passing the filter on
\* value, script version and the length of scripts[0], in output order.
\* scripts[0] is evaluated only for an output that passed the first two
\* tests; with no scripts that evaluation is an index-out-of-range panic.
RECURSIVE ScanFrom(_, _, _, _, _)
ScanFrom(outs, value, scriptVer, scripts, i) ==
  IF i > Len(outs) THEN <<>>
  ELSE LET out == outs[i]
           rest == ScanFrom(outs, value, scriptVer, scripts, i + 1)
       IN IF out.value # value THEN rest
          ELSE IF out.version # scriptVer THEN rest
          ELSE IF Len(out.script) # Len(scripts[1]) THEN rest
          ELSE <<i - 1>> \o rest

\* whether line 192 is reached with an empty scripts slice
ScanPanics(outs, value, scriptVer, scripts) ==
  /\ scripts = <<>>
  /\ \E i \in 1..Len(outs) : outs[i].value = value /\ outs[i].version = scriptVer

\* SelectFrom with an early exit: the inner loop stops at the first
\* candidate equal to s.
RECURSIVE SelectFrom_EarlyExit(_, _, _, _, _)
SelectFrom_EarlyExit(outs, scan, s, k, r) ==
  IF k > Len(scan) THEN r
  ELSE LET i == scan[k]
           eq == ConstantTimeCompare(outs[i + 1].script, s)
       IN IF eq = 1 THEN [idx |-> i, steps |-> r.steps + 1]
          ELSE SelectFrom_EarlyExit(outs, scan, s, k + 1,
                 [idx |-> r.idx, steps |-> r.steps + 1])

\* Lines 200-204: the inner loop over scan for one script s, from position k
\* with the running idx.  The result is the final idx and the number of
\* ConstantTimeCompare/ConstantTimeSelect pairs performed: the loop has no
\* exit but the end of scan.
RECURSIVE SelectFrom(_, _, _, _, _)
SelectFrom(outs, scan, s, k, r) ==
  IF k > Len(scan) THEN r
  ELSE LET i == scan[k]
           eq == ConstantTimeCompare(outs[i + 1].script, s)
       IN SelectFrom(outs, scan, s, k + 1,
            [idx |-> ConstantTimeSelect(eq, i, r.idx), steps |-> r.steps + 1])

\* SearchLoop with a missing flag that is overwritten, not aggregated: the
\* flag tells whether the last script was missing.
RECURSIVE SearchLoop_LastOnly(_, _, _, _, _)
SearchLoop_LastOnly(outs, scan, scripts, j, acc) ==
  IF j > Len(scripts) THEN acc
  ELSE LET s == scripts[j]
           sel == SelectFrom(outs, scan, s, 1, [idx |-> -1, steps |-> 0])
           eq == ConstantTimeEq(sel.idx, -1)
       IN SearchLoop_LastOnly(outs, scan, scripts, j + 1,
            [indexes |-> Append(acc.indexes, sel.idx),
             missing |-> eq,
             steps |-> acc.steps + sel.steps,
             scanned |-> acc.scanned + 1])

\* Lines 197-208: the outer loop over scripts from position j, carrying
\* indexes, the missing flag, the count of inner steps done so far and the
\* count of scripts scanned.
RECURSIVE SearchLoop(_, _, _, _, _)
SearchLoop(outs, scan, scripts, j, acc) ==
  IF j > Len(scripts) THEN acc
  ELSE LET s == scripts[j]
           sel == SelectFrom(outs, scan, s, 1, [idx |-> -1, steps |-> 0])
           eq == ConstantTimeEq(sel.idx, -1)
       IN SearchLoop(outs, scan, scripts, j + 1,
            [indexes |-> Append(acc.indexes, sel.idx),
             missing |-> ConstantTimeSelect(eq, 1, acc.missing),
             steps |-> acc.steps + sel.steps,
             scanned |-> acc.scanned + 1])

\* The whole function.  err is "nil", "errMissingGen" or "panic"; indexes is
\* the returned slice (nil on error); steps counts the compare/select pairs
\* and scanned the scripts processed before returning.
constantTimeOutputSearch(outs, value, scriptVer, scripts) ==
  IF ScanPanics(outs, value, scriptVer, scripts)
  THEN [indexes |-> <<>>, err |-> "panic", steps |-> 0, scanned |-> 0, scan |-> <<>>]
  ELSE LET scan == ScanFrom(outs, value, scriptVer, scripts, 1)
           r == SearchLoop(outs, scan, scripts, 1,
                           [indexes |-> <<>>, missing |-> 0, steps |-> 0, scanned |-> 0])
       IN IF r.missing = 1
          THEN [indexes |-> <<>>, err |-> "errMissingGen",
                steps |-> r.steps, scanned |-> r.scanned, scan |-> scan]
          ELSE [indexes |-> r.indexes, err |-> "nil",
                steps |-> r.steps, scanned |-> r.scanned, scan |-> scan]

(***************************************************************************)
(* wire.MsgTx.Serialize and Deserialize, as MarshalBinary and              *)
(* UnmarshalBinary use them (src/coinjoin.go:116-128).  The encoding is    *)
(* the full serialization: version, the prefix (input count, each input's  *)
(* previous outpoint and sequence, output count, each output's value,      *)
(* script version, script length and script bytes, lock time, expiry) and  *)
(* the witness (input count, each input's ValueIn, signature script length *)
(* and bytes).  One number stands for one fixed-width field or one length  *)
(* prefix.                                                                 *)
(***************************************************************************)
RECURSIVE Flatten(_)
Flatten(ss) == IF ss = <<>> THEN <<>> ELSE Head(ss) \o Flatten(Tail(ss))

EncodePrefixIn(in) == <<in.op, in.seq>>
EncodeOut(out) == <<out.value, out.version, Len(out.script)>> \o out.script
EncodeWitnessIn(in) == <<in.valueIn, Len(in.sig)>> \o in.sig

Serialize(t) ==
  <<t.version, Len(t.TxIn)>>
    \o Flatten([i \in 1..Len(t.TxIn) |-> EncodePrefixIn(t.TxIn[i])])
    \o <<Len(t.TxOut)>>
    \o Flatten([i \in 1..Len(t.TxOut) |-> EncodeOut(t.TxOut[i])])
    \o <<t.lockTime, t.expiry>>
    \o <<Len(t.TxIn)>>
    \o Flatten([i \in 1..Len(t.TxIn) |-> EncodeWitnessIn(t.TxIn[i])])

\* A reader's state is [ok, pos, val]: whether every read so far found its
\* bytes, the position of the next unread number, and the value read last.
ReadFail == [ok |-> FALSE, pos |-> 0, val |-> <<>>]

\* n numbers of b from position pos
ReadN(b, pos, n) ==
  IF n < 0 \/ pos + n - 1 > Len(b) THEN ReadFail
  ELSE [ok |-> TRUE, pos |-> pos + n, val |-> SubSeq(b, pos, pos + n - 1)]

\* n prefix inputs from position pos
RECURSIVE ReadPrefixIns(_, _, _, _)
ReadPrefixIns(b, pos, n, acc) ==
  IF n = 0 THEN [ok |-> TRUE, pos |-> pos, val |-> acc]
  ELSE LET f == ReadN(b, pos, 2)
       IN IF ~f.ok THEN ReadFail
          ELSE ReadPrefixIns(b, f.pos, n - 1,
                 Append(acc, [op |-> f.val[1], seq |-> f.val[2],
                              valueIn |-> 0, sig |-> <<>>]))

\* n outputs from position pos
RECURSIVE ReadOuts(_, _, _, _)
ReadOuts(b, pos, n, acc) ==
  IF n = 0 THEN [ok |-> TRUE, pos |-> pos, val |-> acc]
  ELSE LET f == ReadN(b, pos, 3)
       IN IF ~f.ok THEN ReadFail
          ELSE LET s == ReadN(b, f.pos, f.val[3])
               IN IF ~s.ok THEN ReadFail
                  ELSE ReadOuts(b, s.pos, n - 1,
                         Append(acc, [value |-> f.val[1], version |-> f.val[2],
                                      script |-> s.val]))

\* the witnesses of the inputs ins from input k on, from position pos
RECURSIVE ReadWitnesses(_, _, _, _)
ReadWitnesses(b, pos, ins, k) ==
  IF k > Len(ins) THEN [ok |-> TRUE, pos |-> pos, val |-> ins]
  ELSE LET f == ReadN(b, pos, 2)
       IN IF ~f.ok THEN ReadFail
          ELSE LET s == ReadN(b, f.pos, f.val[2])
               IN IF ~s.ok THEN ReadFail
                  ELSE ReadWitnesses(b, s.pos,
                         [ins EXCEPT ![k] = [@ EXCEPT !.valueIn = f.val[1],
                                                      !.sig = s.val]],
                         k + 1)

\* Deserialize: [ok, tx].  It fails when the bytes end early or the witness
\* count differs from the prefix's input count; bytes after the transaction
\* are left unread.
Deserialize(b) ==
  LET bad == [ok |-> FALSE, tx |-> <<>>]
      h == ReadN(b, 1, 2)
  IN IF ~h.ok THEN bad
     ELSE LET ins == ReadPrefixIns(b, h.pos, h.val[2], <<>>)
          IN IF ~ins.ok THEN bad
             ELSE LET no == ReadN(b, ins.pos, 1)
                  IN IF ~no.ok THEN bad
                     ELSE LET outs == ReadOuts(b, no.pos, no.val[1], <<>>)
                          IN IF ~outs.ok THEN bad
                             ELSE LET m == ReadN(b, outs.pos, 3)
                                  IN IF ~m.ok THEN bad
                                     ELSE IF m.val[3] # Len(ins.val) THEN bad
                                     ELSE LET w == ReadWitnesses(b, m.pos, ins.val, 1)
                                          IN IF ~w.ok THEN bad
                                             ELSE [ok |-> TRUE,
                                                   tx |-> [version |-> h.val[1],
                                                           TxIn |-> w.val,
                                                           TxOut |-> outs.val,
                                                           lockTime |-> m.val[1],
                                                           expiry |-> m.val[2]]]

(***************************************************************************)
(* txscript.ExtractPkScriptAddrs, as Confirm uses it                       *)
(* (src/coinjoin.go:85-96).  The first byte of a script stands for its     *)
(* class: 1 pay-to-pubkey-hash (one address, a public key hash), 2         *)
(* pay-to-pubkey (one address, a public key), 3 multisig of two keys (two  *)
(* addresses), anything else nonstandard (no address, no error).  Confirm   *)
(* passes script version 0, the one version the library extracts           *)
(* addresses for, so the error return of line 87 is not taken.             *)
(***************************************************************************)
ExtractPkScriptAddrs(script) ==
  IF script = <<>> THEN <<>>
  ELSE IF script[1] = 1 THEN <<"AddressPubKeyHash">>
  ELSE IF script[1] = 2 THEN <<"AddressSecpPubKey">>
  ELSE IF script[1] = 3 THEN <<"AddressSecpPubKey", "AddressSecpPubKey">>
  ELSE <<>>

\* txscript.SignatureScript for input index: a non-empty script
SignatureScript(index) == <<7, index>>

(***************************************************************************)
(* CsppJoin (src/coinjoin.go:21-177): the pure parts of its operations.    *)
(***************************************************************************)
scriptVersion == 0

\* newCsppJoin, lines 35-47
newCsppJoin(chg, amt) ==
  [tx |-> [version |-> 1, TxIn |-> <<>>, TxOut |-> chg, lockTime |-> 0, expiry |-> 0],
   txInputs |-> <<>>, myPrevScripts |-> <<>>, myIns |-> <<>>, change |-> chg,
   genScripts |-> <<>>, genIndex |-> <<>>, amount |-> amt]

\* addTxIn with the previous script put in front of the earlier ones.
addTxInResult_PrependScript(c, prevScript, in) ==
  [c EXCEPT !.tx.TxIn = Append(@, in),
            !.myPrevScripts = <<prevScript>> \o @,
            !.myIns = Append(@, in)]

\* addTxIn, lines 49-53
addTxInResult(c, prevScript, in) ==
  [c EXCEPT !.tx.TxIn = Append(@, in),
            !.myPrevScripts = Append(@, prevScript),
            !.myIns = Append(@, in)]

\* Gen, lines 55-72, when the wallet returned the script pkScript
GenResult(c, pkScript) == [c EXCEPT !.genScripts = <<pkScript>>]

\* Lines 132-135: the map from previous outpoint to input index, a later
\* input replacing an earlier one with the same outpoint.
RECURSIVE BuildTxInputs(_, _, _)
BuildTxInputs(ins, i, m) ==
  IF i > Len(ins) THEN m
  ELSE BuildTxInputs(ins, i + 1,
         [o \in DOMAIN m \cup {ins[i].op} |-> IF o = ins[i].op THEN i - 1 ELSE m[o]])

\* CountMyIns without the comparison of ValueIn.
RECURSIVE CountMyIns_NoValueIn(_, _, _, _, _)
CountMyIns_NoValueIn(mine, m, ins, k, n) ==
  IF k > Len(mine) THEN n
  ELSE LET in == mine[k]
       IN IF in.op \in DOMAIN m
          THEN LET other == ins[m[in.op] + 1]
               IN IF in.seq # other.seq
                  THEN n
                  ELSE CountMyIns_NoValueIn(mine, m, ins, k + 1, n + 1)
          ELSE CountMyIns_NoValueIn(mine, m, ins, k + 1, n)

\* Lines 136-145: n after the loop over myIns from position k
RECURSIVE CountMyIns(_, _, _, _, _)
CountMyIns(mine, m, ins, k, n) ==
  IF k > Len(mine) THEN n
  ELSE LET in == mine[k]
       IN IF in.op \in DOMAIN m
          THEN LET other == ins[m[in.op] + 1]
               IN IF in.seq # other.seq \/ in.valueIn # other.valueIn
                  THEN n
                  ELSE CountMyIns(mine, m, ins, k + 1, n + 1)
          ELSE CountMyIns(mine, m, ins, k + 1, n)

\* HasChange without the comparison of the script bytes.
HasChange_NoScript(outs, chg) ==
  \E i \in 1..Len(outs) :
     ~(outs[i].value # chg.value) /\ ~(outs[i].version # chg.version)

\* Lines 150-163: hasChange after the loop over the outputs
HasChange(outs, chg) ==
  \E i \in 1..Len(outs) :
     ~(outs[i].value # chg.value)
     /\ ~(outs[i].version # chg.version)
     /\ outs[i].script = chg.script

\* Validate with the change looked for before the inputs.
Validate_ChangeFirst(c, t, m) ==
  LET n == CountMyIns(c.myIns, m, t.TxIn, 1, 0)
  IN IF c.change # <<>> /\ ~HasChange(t.TxOut, c.change[1])
     THEN [err |-> "coinjoin is missing change", checks |-> <<"change">>,
           indexes |-> <<>>]
     ELSE IF n # Len(c.myIns)
     THEN [err |-> "coinjoin is missing inputs",
           checks |-> (IF c.change # <<>> THEN <<"change">> ELSE <<>>) \o <<"inputs">>,
           indexes |-> <<>>]
     ELSE
       LET r == constantTimeOutputSearch(t.TxOut, c.amount, scriptVersion, c.genScripts)
           done == (IF c.change # <<>> THEN <<"change">> ELSE <<>>) \o <<"inputs", "gen">>
       IN IF r.err = "panic" THEN [err |-> "panic", checks |-> done, indexes |-> <<>>]
          ELSE IF r.err # "nil"
          THEN [err |-> "coinjoin is missing gen output", checks |-> done,
                indexes |-> <<>>]
          ELSE [err |-> "nil", checks |-> done, indexes |-> r.indexes]

\* Lines 136-171: the checks of the decoded transaction t, whose inputs map
\* is m, against skeleton c: the error ("nil": none, "panic": the search did
\* not return), the checks evaluated, in order, and the indexes found.
Validate(c, t, m) ==
  LET n == CountMyIns(c.myIns, m, t.TxIn, 1, 0)
  IN IF n # Len(c.myIns)
     THEN [err |-> "coinjoin is missing inputs", checks |-> <<"inputs">>,
           indexes |-> <<>>]
     ELSE IF c.change # <<>> /\ ~HasChange(t.TxOut, c.change[1])
     THEN [err |-> "coinjoin is missing change", checks |-> <<"inputs", "change">>,
           indexes |-> <<>>]
     ELSE
       LET r == constantTimeOutputSearch(t.TxOut, c.amount, scriptVersion, c.genScripts)
           done == <<"inputs">>
                     \o (IF c.change # <<>> THEN <<"change">> ELSE <<>>)
                     \o <<"gen">>
       IN IF r.err = "panic" THEN [err |-> "panic", checks |-> done, indexes |-> <<>>]
          ELSE IF r.err # "nil"
          THEN [err |-> "coinjoin is missing gen output", checks |-> done,
                indexes |-> <<>>]
          ELSE [err |-> "nil", checks |-> done, indexes |-> r.indexes]

\* Install with the indexes appended to those of an earlier call.
Install_AppendIndexes(c, t, m, indexes) ==
  [c EXCEPT !.tx = t, !.txInputs = <<m>>, !.genIndex = c.genIndex \o indexes]

\* Lines 173-175: the skeleton takes the joined transaction, its inputs map
\* and the indexes found.
Install(c, t, m, indexes) ==
  [c EXCEPT !.tx = t, !.txInputs = <<m>>, !.genIndex = indexes]

\* UnmarshalBinary that takes the decoded transaction before it is checked.
UnmarshalBinaryResult_InstallEarly(c, b) ==
  LET d == Deserialize(b)
  IN IF ~d.ok THEN [c |-> c, err |-> "decode", checks |-> <<>>]
     ELSE LET m == BuildTxInputs(d.tx.TxIn, 1, <<>>)
              v == Validate(c, d.tx, m)
          IN [c |-> IF v.err = "nil" THEN Install(c, d.tx, m, v.indexes)
                    ELSE [c EXCEPT !.tx = d.tx],
              err |-> v.err, checks |-> v.checks]

\* The result of UnmarshalBinary, lines 123-177, of skeleton c on bytes b:
\* the skeleton after the call, the error returned and the checks evaluated.
UnmarshalBinaryResult(c, b) ==
  LET d == Deserialize(b)
  IN IF ~d.ok THEN [c |-> c, err |-> "decode", checks |-> <<>>]
     ELSE LET m == BuildTxInputs(d.tx.TxIn, 1, <<>>)
              v == Validate(c, d.tx, m)
          IN [c |-> IF v.err = "nil" THEN Install(c, d.tx, m, v.indexes) ELSE c,
              err |-> v.err, checks |-> v.checks]

\* MarshalBinary with the serialization that leaves out the witness: the
\* inputs lose their ValueIn and signature script.
MarshalBinary_NoWitness(c) ==
  Serialize([c.tx EXCEPT !.TxIn = [i \in 1..Len(c.tx.TxIn) |->
                                     [c.tx.TxIn[i] EXCEPT !.valueIn = 0, !.sig = <<>>]]])

\* MarshalBinary, lines 116-121
MarshalBinary(c) == Serialize(c.tx)

\* ConfirmFrom that writes the signature script of own input k to the k-th
\* input of the transaction, not to the input its previous outpoint maps to.
RECURSIVE ConfirmFrom_OwnPosition(_, _, _, _, _)
ConfirmFrom_OwnPosition(c, t, k, keyFail, signFail) ==
  IF k > Len(c.myIns) THEN [tx |-> t, err |-> "nil"]
  ELSE LET outScript == c.myPrevScripts[k]
           op == c.myIns[k].op
           m == IF c.txInputs = <<>> THEN <<>> ELSE c.txInputs[1]
       IN IF op \notin DOMAIN m
          THEN [tx |-> t, err |-> "coinjoin is missing inputs"]
          ELSE LET addrs == ExtractPkScriptAddrs(outScript)
               IN IF Len(addrs) # 1
                  THEN ConfirmFrom_OwnPosition(c, t, k + 1, keyFail, signFail)
                  ELSE IF addrs[1] # "AddressPubKeyHash"
                  THEN [tx |-> t, err |-> "bug: previous output is not P2PKH"]
                  ELSE IF keyFail = k
                  THEN [tx |-> t, err |-> "privateKeyForAddress"]
                  ELSE IF signFail = k
                  THEN [tx |-> t, err |-> "txscript.SignatureScript"]
                  ELSE ConfirmFrom_OwnPosition(c,
                         IF k > Len(t.TxIn) THEN t
                         ELSE [t EXCEPT !.TxIn[k].sig = SignatureScript(k - 1)],
                         k + 1, keyFail, signFail)

\* Confirm, lines 74-110, from own input k on, over the transaction t.  The
\* wallet's privateKeyForAddress fails at own input keyFail and
\* SignatureScript at own input signFail (0: neither fails).  The result is the
\* transaction after the call and the error returned.
RECURSIVE ConfirmFrom(_, _, _, _, _)
ConfirmFrom(c, t, k, keyFail, signFail) ==
  IF k > Len(c.myIns) THEN [tx |-> t, err |-> "nil"]
  ELSE LET outScript == c.myPrevScripts[k]
           op == c.myIns[k].op
           m == IF c.txInputs = <<>> THEN <<>> ELSE c.txInputs[1]
       IN IF op \notin DOMAIN m
          THEN [tx |-> t, err |-> "coinjoin is missing inputs"]
          ELSE LET index == m[op]
                   addrs == ExtractPkScriptAddrs(outScript)
               IN IF Len(addrs) # 1
                  THEN ConfirmFrom(c, t, k + 1, keyFail, signFail)
                  ELSE IF addrs[1] # "AddressPubKeyHash"
                  THEN [tx |-> t, err |-> "bug: previous output is not P2PKH"]
                  ELSE IF keyFail = k
                  THEN [tx |-> t, err |-> "privateKeyForAddress"]
                  ELSE IF signFail = k
                  THEN [tx |-> t, err |-> "txscript.SignatureScript"]
                  ELSE ConfirmFrom(c,
                         [t EXCEPT !.TxIn[index + 1].sig = SignatureScript(index)],
                         k + 1, keyFail, signFail)

(***************************************************************************)
(* The byte strings UnmarshalBinary may be handed: the serialization of    *)
(* any joined transaction within the bounds, one of them followed by a     *)
(* stray byte, and byte strings that are no transaction (empty, ending     *)
(* inside the inputs, with a witness count that is not the input count).   *)
(***************************************************************************)
MsgTx(ins, outs) ==
  [version |-> 1, TxIn |-> ins, TxOut |-> outs, lockTime |-> 0, expiry |-> 0]

JoinedTxs ==
  {MsgTx(ins, outs) :
     ins \in SeqsUpTo(JoinIns, MaxJoinIns), outs \in SeqsUpTo(JoinOuts, MaxJoinOuts)}

MalformedBytes == {<<>>, <<1, 1, 1>>, <<1, 0, 0, 0, 0, 1, 1, 0>>}

GenOut(s) == [value |-> 1, version |-> 0, script |-> s]

TrailingBytes == {Serialize(MsgTx(<<InA>>, <<GenOut(<<1, 1>>)>>)) \o <<9>>}

WireBytes == {Serialize(t) : t \in JoinedTxs} \cup MalformedBytes \cup TrailingBytes

\* The byte strings a mix session hands to a participant in the runs of the
\* whole participant: joined transactions with the participant's inputs in
\* either order or with one of them altered, with the change and the mixed
\* output, with the mixed output twice, with the change alone and with no
\* output, one with a stray byte after it, and a byte string that is no
\* transaction.
SessionTxs ==
  {MsgTx(<<InA, InB>>, <<ChangeOut, GenOut(<<1, 1>>)>>),
   MsgTx(<<InB, InA>>, <<GenOut(<<1, 1>>), GenOut(<<1, 1>>)>>),
   MsgTx(<<InB, [InA EXCEPT !.seq = 1]>>, <<ChangeOut, GenOut(<<1, 1>>)>>),
   MsgTx(<<InA>>, <<ChangeOut>>),
   MsgTx(<<InA, InB>>, <<>>)}

SessionBytes == {Serialize(t) : t \in SessionTxs} \cup TrailingBytes \cup {<<>>}

\* The skeletons newCsppJoin, addTxIn and Gen build.  ArgP2PK carries the
\* input of ArgMultiSig and UnmarshalBinary reads no previous script, so
\* the inputs are drawn from the other two; Gen has not run or has received
\* the script the joined transactions pay the mixed amount to.
RECURSIVE AddAll(_, _, _)
AddAll(c, args, k) ==
  IF k > Len(args) THEN c
  ELSE AddAll(addTxInResult(c, args[k][1], args[k][2]), args, k + 1)

BuiltSkeletons ==
  {LET c == AddAll(newCsppJoin(chg, amt), args, 1)
   IN IF gen = <<>> THEN c ELSE GenResult(c, gen[1]) :
     chg \in {<<>>, <<ChangeOut>>}, amt \in MixAmounts,
     args \in SeqsUpTo({ArgP2PKH, ArgMultiSig}, MaxIns), gen \in {<<>>, <<<<1, 1>>>>}}

(***************************************************************************)
(* The fee builder (src/unnamed/part_001): RegularTransaction, its         *)
(* broadcastTransaction and selectInputsForAmount, and the older           *)
(* TicketBuyer.selectInputsForAmount (src/ticketbuyer.go:698-780).         *)
(*                                                                         *)
(* Amounts are dcrutil.Amount, whole atoms.  The Amount field of a wallet  *)
(* listing is a float64 count of coins; here it is a whole number of       *)
(* tenths of an atom, which dcrutil.NewAmount rounds to atoms.  A listed   *)
(* output is a record [op, spendable, account, amount, scriptPubKey]: op   *)
(* stands for TxID, Vout and Tree, scriptPubKey for the decoded script.    *)
(* The wallet lists well-formed outputs, so NewAmount, NewHashFromStr and  *)
(* hex.DecodeString (lines 130-146) return no error.  A selected input is  *)
(* a record [op, valueIn, sig]; wire.NewTxIn gives the other fields their  *)
(* fixed defaults.                                                         *)
(***************************************************************************)
\* txsizes.RedeemP2PKHSigScriptSize: 1 + 73 + 1 + 33
RedeemP2PKHSigScriptSize == 108
\* txsizes.RedeemP2PKSigScriptSize: 1 + 73
RedeemP2PKSigScriptSize == 74
\* txsizes.P2PKHPkScriptSize
P2PKHPkScriptSize == 25
\* txscript.MaxScriptElementSize
MaxScriptElementSize == 2048
\* generatedTxVersion
generatedTxVersion == 1
\* cfg.SourceAccountName
SourceAccountName == "default"

\* wire.VarIntSerializeSize
VarIntSerializeSize(n) == IF n < 253 THEN 1 ELSE IF n <= 65535 THEN 3 ELSE 5

\* txsizes.EstimateInputSize: previous outpoint (32 + 4 + 1), value in (8),
\* block height and index (4 + 4), the signature script with its length,
\* the sequence (4)
EstimateInputSize(scriptSize) ==
  32 + 4 + 1 + 8 + 4 + 4 + VarIntSerializeSize(scriptSize) + scriptSize + 4

\* txsizes.EstimateOutputSize: value (8), script version (2), the script
\* with its length
EstimateOutputSize(scriptSize) == 8 + 2 + VarIntSerializeSize(scriptSize) + scriptSize

\* the sum of the elements of a sequence of numbers
RECURSIVE SumSeq(_)
SumSeq(q) == IF q = <<>> THEN 0 ELSE Head(q) + SumSeq(Tail(q))

\* txsizes.EstimateSerializeSize: the worst-case size of a signed
\* transaction with inputs of the given signature script sizes, the outputs
\* txOuts and, when changeScriptSize > 0, one more output for the change
EstimateSerializeSize(scriptSizes, txOuts, changeScriptSize) ==
  LET txInsSize == SumSeq([i \in 1..Len(scriptSizes) |-> EstimateInputSize(scriptSizes[i])])
      outsSize == SumSeq([i \in 1..Len(txOuts) |-> EstimateOutputSize(Len(txOuts[i].script))])
      inputCount == Len(scriptSizes)
      outputCount == Len(txOuts) + (IF changeScriptSize > 0 THEN 1 ELSE 0)
      changeSize == IF changeScriptSize > 0 THEN EstimateOutputSize(changeScriptSize) ELSE 0
  IN 12 + 2 * VarIntSerializeSize(inputCount) + VarIntSerializeSize(outputCount)
       + txInsSize + outsSize + changeSize

\* txrules.FeeForSerializeSize.  Its clamp to dcrutil.MaxAmount applies to
\* no rate and size of this model.
FeeForSerializeSize(relayFeePerKb, txSerializeSize) ==
  LET fee == (relayFeePerKb * txSerializeSize) \div 1000
  IN IF fee = 0 /\ relayFeePerKb > 0 THEN relayFeePerKb ELSE fee

\* txrules.IsDustAmount: the output costs the network more than a third of
\* its value at the relay fee
IsDustAmount(amt, scriptSize, relayFeePerKb) ==
  LET totalSize == 8 + 2 + VarIntSerializeSize(scriptSize) + scriptSize + 165
  IN (amt * 1000) \div (3 * totalSize) < relayFeePerKb

\* What dcrutil.NewAmount can return for a finite number of coins, given
\* in tenths of an atom: Amount(f*1e8 + 0.5), or Amount(f*1e8 - 0.5) for a
\* negative f, the conversion truncating.  The float64 product is off the
\* decimal by less than a tenth of an atom for every amount of the model,
\* so an amount that is not half an atom is rounded to the nearest atom.
\* For one that is exactly half an atom the product lies at the half or
\* just beside it, as the float64 nearest to the decimal and the build (a
\* fused multiply and add or not) have it, and the result is either of the
\* two atoms next to it.
NewAmountOutcomes(f) ==
  LET m == IF f < 0 THEN 0 - f ELSE f
      sign(a) == IF f < 0 THEN 0 - a ELSE a
  IN IF m % 10 = 5 THEN {sign(m \div 10), sign(m \div 10 + 1)}
     ELSE {sign((m + 5) \div 10)}

\* dcrutil.NewAmount where its result is the same in every build; the
\* listings and the fees of the model have no amount of half an atom
NewAmount(f) == CHOOSE a \in NewAmountOutcomes(f) : NewAmountOutcomes(f) = {a}

\* txscript.GetScriptClass(0, pkScript).  The first byte of a script stands
\* for its class, as in ExtractPkScriptAddrs; the stake classes wrap the
\* script that follows their first byte.
GetScriptClass(script) ==
  IF script = <<>> THEN "NonStandardTy"
  ELSE IF script[1] = 1 THEN "PubKeyHashTy"
  ELSE IF script[1] = 2 THEN "PubKeyTy"
  ELSE IF script[1] = 3 THEN "MultiSigTy"
  ELSE IF script[1] = 4 THEN "StakeGenTy"
  ELSE IF script[1] = 5 THEN "StakeRevocationTy"
  ELSE IF script[1] = 6 THEN "StakeSubChangeTy"
  ELSE IF script[1] = 7 THEN "ScriptHashTy"
  ELSE IF script[1] = 8 THEN "StakeSubmissionTy"
  ELSE IF script[1] = 9 THEN "NullDataTy"
  ELSE "NonStandardTy"

StakeClasses == {"StakeGenTy", "StakeRevocationTy", "StakeSubChangeTy", "StakeSubmissionTy"}

\* txscript.GetStakeOutSubclass: the class of the script a stake output
\* wraps; an error for a script that is no stake output
GetStakeOutSubclass(script) ==
  IF GetScriptClass(script) \in StakeClasses
  THEN [err |-> "nil", class |-> GetScriptClass(Tail(script))]
  ELSE [err |-> "not a stake output", class |-> "NonStandardTy"]

\* Lines 148-178: the signature script size of a previous output script,
\* "skip" for a class the selection passes over, or the error of line 159.
RedeemScriptSize(pkScript) ==
  LET scriptClass == GetScriptClass(pkScript)
  IN IF scriptClass = "PubKeyHashTy" THEN [err |-> "nil", skip |-> FALSE, size |-> RedeemP2PKHSigScriptSize]
     ELSE IF scriptClass = "PubKeyTy" THEN [err |-> "nil", skip |-> FALSE, size |-> RedeemP2PKSigScriptSize]
     ELSE IF scriptClass \in {"StakeRevocationTy", "StakeSubChangeTy", "StakeGenTy"}
     THEN LET sub == GetStakeOutSubclass(pkScript)
          IN IF sub.err # "nil"
             THEN [err |-> "failed to extract nested script in stake output", skip |-> FALSE, size |-> 0]
             ELSE IF sub.class # "PubKeyHashTy" THEN [err |-> "nil", skip |-> TRUE, size |-> 0]
             ELSE [err |-> "nil", skip |-> FALSE, size |-> RedeemP2PKHSigScriptSize]
     ELSE [err |-> "nil", skip |-> TRUE, size |-> 0]

\* NoInputs with the script size of the first fee estimate already listed.
NoInputs_SeededSizes ==
  [Amount |-> 0, Inputs |-> <<>>, Scripts |-> <<>>,
   RedeemScriptSizes |-> <<RedeemP2PKHSigScriptSize>>]

\* txauthor.InputDetail with nothing selected
NoInputs == [Amount |-> 0, Inputs |-> <<>>, Scripts |-> <<>>, RedeemScriptSizes |-> <<>>]

\* SelectLoop that takes the outputs the wallet marks as not spendable too.
RECURSIVE SelectLoop_IgnoreSpendable(_, _, _, _, _)
SelectLoop_IgnoreSpendable(unspentOutputs, byAccount, targetAmount, i, cur) ==
  IF i > Len(unspentOutputs) THEN [err |-> "InsufficientBalance", detail |-> <<>>]
  ELSE LET u == unspentOutputs[i]
           rest == SelectLoop_IgnoreSpendable(unspentOutputs, byAccount, targetAmount, i + 1, cur)
       IN IF ~(byAccount => u.account = SourceAccountName) THEN rest
          ELSE LET unspentOutputAmount == NewAmount(u.amount)
                   txIn == [op |-> u.op, valueIn |-> unspentOutputAmount, sig |-> <<>>]
                   rs == RedeemScriptSize(u.scriptPubKey)
               IN IF rs.err # "nil" THEN [err |-> rs.err, detail |-> <<>>]
                  ELSE IF rs.skip THEN rest
                  ELSE LET now == [Amount |-> cur.Amount + unspentOutputAmount,
                                   Inputs |-> Append(cur.Inputs, txIn),
                                   Scripts |-> Append(cur.Scripts, u.scriptPubKey),
                                   RedeemScriptSizes |-> Append(cur.RedeemScriptSizes, rs.size)]
                       IN IF now.Amount >= targetAmount
                          THEN [err |-> "nil", detail |-> <<now>>]
                          ELSE CHOOSE res \in {SelectLoop_IgnoreSpendable(unspentOutputs, byAccount,
                                                   targetAmount, i + 1, n) : n \in {now}} : TRUE

\* The loop of selectInputsForAmount (part_001:128-196, ticketbuyer.go:711-779)
\* from the i-th listed output on, with cur selected so far.  byAccount tells
\* whether the output's account is compared with cfg.SourceAccountName, as
\* RegularTransaction does (line 129) and TicketBuyer does not (line 712).
\* The result is the error and, with no error, the inputs selected.  The
\* next iteration takes the inputs selected so far as a value n.
RECURSIVE SelectLoop(_, _, _, _, _)
SelectLoop(unspentOutputs, byAccount, targetAmount, i, cur) ==
  IF i > Len(unspentOutputs) THEN [err |-> "InsufficientBalance", detail |-> <<>>]
  ELSE LET u == unspentOutputs[i]
           rest == SelectLoop(unspentOutputs, byAccount, targetAmount, i + 1, cur)
       IN IF ~(u.spendable /\ (byAccount => u.account = SourceAccountName)) THEN rest
          ELSE LET unspentOutputAmount == NewAmount(u.amount)
                   txIn == [op |-> u.op, valueIn |-> unspentOutputAmount, sig |-> <<>>]
                   rs == RedeemScriptSize(u.scriptPubKey)
               IN IF rs.err # "nil" THEN [err |-> rs.err, detail |-> <<>>]
                  ELSE IF rs.skip THEN rest
                  ELSE LET now == [Amount |-> cur.Amount + unspentOutputAmount,
                                   Inputs |-> Append(cur.Inputs, txIn),
                                   Scripts |-> Append(cur.Scripts, u.scriptPubKey),
                                   RedeemScriptSizes |-> Append(cur.RedeemScriptSizes, rs.size)]
                       IN IF now.Amount >= targetAmount
                          THEN [err |-> "nil", detail |-> <<now>>]
                          ELSE CHOOSE res \in {SelectLoop(unspentOutputs, byAccount, targetAmount,
                                                           i + 1, n) : n \in {now}} : TRUE

\* rand.Shuffle (part_001:124-126) with outcome p, a permutation of the
\* positions: the listing is reordered in place
Shuffle(unspentOutputs, p) == [i \in 1..Len(unspentOutputs) |-> unspentOutputs[p[i]]]

\* RegularTransaction.selectInputsForAmount on the shuffled listing
selectInputsForAmount(shuffled, targetAmount) ==
  SelectLoop(shuffled, TRUE, targetAmount, 1, NoInputs)

\* TicketBuyer.selectInputsForAmount on the listing the wallet returned
tbSelectInputsForAmount(unspentOutputs, targetAmount) ==
  SelectLoop(unspentOutputs, FALSE, targetAmount, 1, NoInputs)

\* Line 72 with a restart when the surplus equals the required fee too.
MustRestart_OnEqual(remainingAmount, required) == remainingAmount <= required

\* Line 72: the surplus does not cover the fee the selected inputs require
MustRestart(remainingAmount, required) == remainingAmount < required

\* Line 73 with the surplus as the next target fee.
RestartFee_Surplus(remainingAmount, required) == remainingAmount

\* Line 73: the target fee of the next selection
RestartFee(remainingAmount, required) == required

\* Line 82 without the dust test.
NeedsChange_NoDustTest(changeAmount, relayFeePerKb) == changeAmount # 0

\* Line 82: the leftover is paid back as change
NeedsChange(changeAmount, relayFeePerKb) ==
  changeAmount # 0 /\ ~IsDustAmount(changeAmount, P2PKHPkScriptSize, relayFeePerKb)

\* BuildTx with a change that is the whole surplus, the fee not taken off.
BuildTx_ChangeKeepsFee(m, d, outputAmount, required, relayFeePerKb, changeScript) ==
  LET m1 == [m EXCEPT !.TxIn = d.Inputs, !.version = generatedTxVersion]
      changeAmount == d.Amount - outputAmount
  IN IF NeedsChange(changeAmount, relayFeePerKb)
     THEN IF Len(changeScript) > MaxScriptElementSize
          THEN [err |-> "Invalid", mtx |-> m1]
          ELSE [err |-> "nil",
                mtx |-> [m1 EXCEPT !.TxOut = Append(@, [value |-> changeAmount, version |-> 0,
                                                        script |-> changeScript])]]
     ELSE [err |-> "nil", mtx |-> m1]

\* Lines 77-95: the inputs and the version are set and the change output,
\* if any, is appended.  The result is the error and the transaction.
BuildTx(m, d, outputAmount, required, relayFeePerKb, changeScript) ==
  LET m1 == [m EXCEPT !.TxIn = d.Inputs, !.version = generatedTxVersion]
      changeAmount == d.Amount - outputAmount - required
  IN IF NeedsChange(changeAmount, relayFeePerKb)
     THEN IF Len(changeScript) > MaxScriptElementSize
          THEN [err |-> "Invalid", mtx |-> m1]
          ELSE [err |-> "nil",
                mtx |-> [m1 EXCEPT !.TxOut = Append(@, [value |-> changeAmount, version |-> 0,
                                                        script |-> changeScript])]]
     ELSE [err |-> "nil", mtx |-> m1]

\* Lines 57-95, one pass of the fee loop of broadcastTransaction over the
\* shuffled listing: the selection, the fee its inputs require and either
\* an error, a restart with a new target fee, or the built transaction.
LoopPass(r, relayFeePerKb, m, fee, shuffled) ==
  CHOOSE pass \in
    { LET failed(e) == [kind |-> "error", err |-> e, inputDetail |-> sel.detail,
                        maxRequiredFee |-> 0, targetFee |-> fee, mtx |-> m]
      IN IF sel.err # "nil" THEN failed(sel.err)
         ELSE LET d == sel.detail[1]
              IN IF d.Amount < r.outputAmount + fee THEN failed("InsufficientBalance")
                 ELSE LET maxSignedSize ==
                            EstimateSerializeSize(d.RedeemScriptSizes, m.TxOut, P2PKHPkScriptSize)
                          required == FeeForSerializeSize(relayFeePerKb, maxSignedSize)
                          remainingAmount == d.Amount - r.outputAmount
                      IN IF MustRestart(remainingAmount, required)
                         THEN [kind |-> "restart", err |-> "nil", inputDetail |-> sel.detail,
                               maxRequiredFee |-> required,
                               targetFee |-> RestartFee(remainingAmount, required), mtx |-> m]
                         ELSE LET b == BuildTx(m, d, r.outputAmount, required, relayFeePerKb,
                                               r.changeScript)
                              IN [kind |-> IF b.err = "nil" THEN "built" ELSE "error",
                                  err |-> b.err, inputDetail |-> sel.detail,
                                  maxRequiredFee |-> required, targetFee |-> fee, mtx |-> b.mtx]
      : sel \in {selectInputsForAmount(shuffled, r.outputAmount + fee)} } : TRUE

(***************************************************************************)
(* The inputs of the fee builder.                                          *)
(***************************************************************************)
\* a script of n bytes with the given first byte
ByteScript(first, fill, n) == [i \in 1..n |-> IF i = 1 THEN first ELSE fill]

\* The relay fees of the wallet in atoms per kB: the default and a low one.
RelayFees == {10000, 10}

\* The outputs the wallet may list, for a payment of 100000 atoms at 10000
\* atoms per kB, where one pay-to-pubkey-hash input requires a fee of 2530
\* atoms and the smallest change that is no dust is 6030 atoms: one that
\* leaves a large change, ones that leave a change of 6029, of 6030 and of
\* none, a pay-to-pubkey and a stake output (wrapping a pay-to-pubkey-hash)
\* that cover the payment only together and whose amounts are rounded, and
\* outputs the selection must pass over: not spendable, of another account,
\* pay-to-script-hash, and a stake output wrapping a pay-to-script-hash.
UtxoPool ==
  {[op |-> 1, spendable |-> TRUE, account |-> "default", amount |-> 1500000,
    scriptPubKey |-> <<1, 9>>],
   [op |-> 2, spendable |-> TRUE, account |-> "default", amount |-> 1085590,
    scriptPubKey |-> <<1, 9>>],
   [op |-> 3, spendable |-> TRUE, account |-> "default", amount |-> 1085600,
    scriptPubKey |-> <<1, 9>>],
   [op |-> 4, spendable |-> TRUE, account |-> "default", amount |-> 1025300,
    scriptPubKey |-> <<1, 9>>],
   [op |-> 5, spendable |-> TRUE, account |-> "default", amount |-> 519996,
    scriptPubKey |-> <<2, 9>>],
   [op |-> 6, spendable |-> TRUE, account |-> "default", amount |-> 510004,
    scriptPubKey |-> <<4, 1, 9>>],
   [op |-> 7, spendable |-> FALSE, account |-> "default", amount |-> 1500000,
    scriptPubKey |-> <<1, 9>>],
   [op |-> 8, spendable |-> TRUE, account |-> "mixed", amount |-> 1500000,
    scriptPubKey |-> <<1, 9>>],
   [op |-> 9, spendable |-> TRUE, account |-> "default", amount |-> 1500000,
    scriptPubKey |-> <<7, 9>>],
   [op |-> 10, spendable |-> TRUE, account |-> "default", amount |-> 1500000,
    scriptPubKey |-> <<5, 7, 9>>]}

\* a set of listed outputs as a listing, in the order of their outpoints
RECURSIVE SeqOfUtxos(_)
SeqOfUtxos(S) ==
  IF S = {} THEN <<>>
  ELSE LET u == CHOOSE x \in S : \A y \in S : x.op <= y.op
       IN <<u>> \o SeqOfUtxos(S \ {u})

UtxoListings == {SeqOfUtxos(S) : S \in {T \in SUBSET UtxoPool : Cardinality(T) <= MaxUtxos}}

\* Six equal pay-to-pubkey-hash outputs of 1660 atoms: at 10000 atoms per kB
\* every further input costs 1660 atoms of fee, so that for a payment of 700
\* atoms every selection falls short of the fee its inputs require.
RisingUtxos ==
  [i \in 1..6 |-> [op |-> 20 + i, spendable |-> TRUE, account |-> "default",
                   amount |-> 16600, scriptPubKey |-> <<1, 9>>]]

\* NewRegularTransaction (part_001:30-39)
NewRegularTransaction(outputScript, changeScript, outputAmount, utxos) ==
  [outputScript |-> outputScript, changeScript |-> changeScript,
   outputAmount |-> outputAmount, utxos |-> utxos]

\* The transactions the fee builder is asked for: the payment of 100000
\* atoms from any listing, with a change script of an address; the same
\* with a change script too long to be pushed; the payment of 700 atoms
\* from the six equal outputs.
RegularTransactions ==
  {NewRegularTransaction(ByteScript(1, 0, 25), ByteScript(1, 1, 25), 100000, l) :
     l \in UtxoListings}
    \cup {NewRegularTransaction(ByteScript(1, 0, 25), ByteScript(1, 1, 2049), 100000,
                                SeqOfUtxos({u \in UtxoPool : u.op = 1}))}
    \cup {NewRegularTransaction(ByteScript(1, 0, 25), ByteScript(1, 1, 25), 700, RisingUtxos)}

\* what signAndPublishTransaction (src/util.go:112-141) may return: success,
\* or the error of the wallet's SignTransaction, of its PublishTransaction,
\* or of chainhash.NewHash on the hash the wallet answered with
PublishOutcomes == {"nil", "SignTransaction", "PublishTransaction", "NewHash"}

(***************************************************************************)
(* loadConfig (src/unnamed/part_000:58-137) and the values it works on.    *)
(* A server address is its host, its port ("": none given) and whether it  *)
(* is malformed; a destination address is "" or the network it encodes     *)
(* ("garbage": none); an amount is "zero", "negative", "positive" or "NaN".*)
(***************************************************************************)
defaultNetwork == "testnet3"
TestNet3Name == "testnet3"
MainNetName == "mainnet"

\* defaultConfig, lines 46-56
defaultConfig ==
  [Network |-> defaultNetwork, SendTx |-> FALSE, PurchaseTicket |-> FALSE,
   DestinationAddress |-> "", SendAmount |-> "zero",
   SourceAccountName |-> "default", WalletPassphrase |-> "",
   GRPCServer |-> [host |-> "localhost", port |-> "19111", malformed |-> FALSE],
   RPCServer |-> [host |-> "localhost", port |-> "19110", malformed |-> FALSE],
   flagerr |-> "nil"]

\* NormalizeAddress (src/util.go:22-37): an address with a port is returned
\* as it is, one without gets the default port, a malformed one is an error
NormalizeAddress(addr, defaultPort) ==
  IF ~addr.malformed /\ addr.port # "" THEN [err |-> FALSE, addr |-> addr]
  ELSE IF addr.malformed THEN [err |-> TRUE, addr |-> addr]
  ELSE [err |-> FALSE, addr |-> [addr EXCEPT !.port = defaultPort]]

\* dcrutil.DecodeAddress: the address must encode the network asked for
DecodeAddressFails(addr, net) == addr # net

\* loadConfig, lines 60-137, on the options c the parser filled in: the
\* error ("nil": none, "exit": os.Exit(0) after the help was printed), the
\* configuration returned and the network parameters chosen on the way
\* ("": none yet).
loadConfig(c) ==
  LET fail(e, net) == [err |-> e, cfg |-> <<>>, activeNet |-> net]
      activeNet == IF c.Network = TestNet3Name THEN TestNet3Name
                   ELSE IF c.Network # MainNetName THEN MainNetName
                   ELSE ""
      grpc == NormalizeAddress(c.GRPCServer, "19111")
      rpc == NormalizeAddress(c.RPCServer, "19110")
  IN IF c.flagerr = "ErrHelp" THEN fail("exit", "")
     ELSE IF c.flagerr # "nil" THEN fail(c.flagerr, "")
     ELSE IF c.PurchaseTicket = c.SendTx
     THEN fail("Specify either --sendtx or --purchaseticket", "")
     ELSE IF activeNet = "" THEN fail("network must be testnet3 or mainnet", "")
     ELSE IF grpc.err THEN fail("invalid grpc server address", activeNet)
     ELSE IF rpc.err THEN fail("invalid json-rpc server address", activeNet)
     ELSE IF c.SourceAccountName = "" THEN fail("source account name must be set", activeNet)
     ELSE IF c.WalletPassphrase = "" THEN fail("wallet passphrase must be set", activeNet)
     ELSE IF c.SendTx /\ c.DestinationAddress = ""
     THEN fail("destination address must be set when using --sendtx", activeNet)
     ELSE IF c.SendTx /\ DecodeAddressFails(c.DestinationAddress, activeNet)
     THEN fail("decode destaddr error", activeNet)
     ELSE IF c.SendTx /\ c.SendAmount \in {"zero", "negative"}
     THEN fail("amount must be a >0", activeNet)
     ELSE IF c.SendTx /\ c.SendAmount = "NaN" THEN fail("amount error", activeNet)
     ELSE [err |-> "nil",
           cfg |-> <<[c EXCEPT !.GRPCServer = grpc.addr, !.RPCServer = rpc.addr]>>,
           activeNet |-> activeNet]

\* The options given on the command line: the network names, the two
\* actions, server addresses with and without a port and malformed,
\* destination addresses of either network, none and garbage.
Networks == {"testnet3", "mainnet", "simnet", ""}
ServerAddrs(port) ==
  {[host |-> "localhost", port |-> port, malformed |-> FALSE],
   [host |-> "localhost", port |-> "", malformed |-> FALSE],
   [host |-> "[::1", port |-> "", malformed |-> TRUE]}
Configs ==
  {[defaultConfig EXCEPT !.Network = n, !.SendTx = a[1], !.PurchaseTicket = a[2],
                         !.DestinationAddress = d, !.SendAmount = amt,
                         !.SourceAccountName = san, !.WalletPassphrase = pass,
                         !.GRPCServer = g, !.flagerr = f] :
     n \in Networks, a \in BOOLEAN \X BOOLEAN, d \in {"", "testnet3", "mainnet", "garbage"},
     amt \in {"zero", "positive", "NaN"}, san \in {"default", ""}, pass \in {"", "pass"},
     g \in ServerAddrs("19111"), f \in {"nil", "ErrHelp", "unknown flag"}}

\* purchaseTicket's locals before the call
NoLocals ==
  [ticketPrice |-> 0, votingAddress |-> <<>>, ticketFee |-> 0, totalTicketCost |-> 0,
   fundingOutputIndex |-> -1]

(***************************************************************************)
(* purchaseTicket (src/ticketbuyer.go:172-279): the pure parts.  An        *)
(* address is its kind and the byte its hash is made of; a script starts   *)
(* with the byte of its class, a stake script with the byte of its stake   *)
(* class before the script it wraps.                                       *)
(***************************************************************************)
TicketCommitmentScriptSize == 32
defaultTicketFeeLimits == 22528
MaxInputsPerSStx == 64
MaxOutputsPerSStx == 129
SStxPKHMinOutSize == 32
SStxPKHMaxOutSize == 77
\* stake.MaxSingleBytePushLength: the longest push CheckSStx accepts in a
\* commitment, the shortest being 30
MaxSingleBytePushLength == 75

\* txsizes.EstimateSerializeSizeFromScriptSizes
EstimateSerializeSizeFromScriptSizes(inputSizes, outputSizes, changeScriptSize) ==
  LET txInsSize == SumSeq([i \in 1..Len(inputSizes) |-> EstimateInputSize(inputSizes[i])])
      txOutsSize == SumSeq([i \in 1..Len(outputSizes) |-> EstimateOutputSize(outputSizes[i])])
      outputCount == Len(outputSizes) + (IF changeScriptSize > 0 THEN 1 ELSE 0)
      changeSize == IF changeScriptSize > 0 THEN EstimateOutputSize(changeScriptSize) ELSE 0
  IN 12 + 2 * VarIntSerializeSize(Len(inputSizes)) + VarIntSerializeSize(outputCount)
       + txInsSize + txOutsSize + changeSize

\* estimateTicketSize, src/util.go:39-49
estimateTicketSize ==
  EstimateSerializeSizeFromScriptSizes(
    <<RedeemP2PKHSigScriptSize>>,
    <<P2PKHPkScriptSize + 1, TicketCommitmentScriptSize, P2PKHPkScriptSize + 1>>, 0)

\* the n-th address the wallet hands out: pay-to-pubkey-hash
WalletAddress(n) == [kind |-> "PubKeyHash", hash |-> n]

\* txscript.PayToAddrScript / addressScript, src/util.go:54-62
PayToAddrScript(addr) ==
  IF addr.kind = "PubKeyHash" THEN ByteScript(1, addr.hash, P2PKHPkScriptSize)
  ELSE ByteScript(7, addr.hash, 23)

\* generateAddress, src/util.go:64-88: the wallet's NextAddress fails, its
\* answer does not decode for the network, or the n-th address is returned
\* with its script
generateAddress(outcome, n) ==
  IF outcome # "nil" THEN [err |-> outcome, address |-> <<>>, pkScript |-> <<>>]
  ELSE [err |-> "nil", address |-> <<WalletAddress(n)>>,
        pkScript |-> PayToAddrScript(WalletAddress(n))]

\* txscript.PayToSStx: the stake submission script of an address
PayToSStx(addr) ==
  IF addr.kind \in {"PubKeyHash", "ScriptHash"}
  THEN [err |-> "nil", script |-> <<8>> \o PayToAddrScript(addr)]
  ELSE [err |-> "unsupported address type", script |-> <<>>]

\* txscript.PayToSStxChange: the stake change script of an address
PayToSStxChange(addr) ==
  IF addr.kind \in {"PubKeyHash", "ScriptHash"}
  THEN [err |-> "nil", script |-> <<6>> \o PayToAddrScript(addr)]
  ELSE [err |-> "unsupported address type", script |-> <<>>]

\* the k low bytes of n, lowest first
RECURSIVE LittleEndian(_, _)
LittleEndian(n, k) ==
  IF k = 0 THEN <<>> ELSE <<n % 256>> \o LittleEndian(n \div 256, k - 1)

\* the number a little-endian byte string encodes
RECURSIVE FromLittleEndian(_)
FromLittleEndian(b) ==
  IF b = <<>> THEN 0 ELSE Head(b) + 256 * FromLittleEndian(Tail(b))

\* txscript.GenerateSStxAddrPush: OP_RETURN, the push of 30 bytes, the 20
\* bytes of the hash, the amount in 8 bytes whose top bit tells a script
\* hash, the fee limits in 2 bytes
GenerateSStxAddrPush(addr, amt, limits) ==
  IF addr.kind \notin {"PubKeyHash", "ScriptHash"}
  THEN [err |-> "unsupported address type", script |-> <<>>]
  ELSE LET a == LittleEndian(amt, 8)
       IN [err |-> "nil",
           script |-> <<9, 30>> \o [i \in 1..20 |-> addr.hash]
                        \o (IF addr.kind = "ScriptHash" THEN [a EXCEPT ![8] = @ + 128] ELSE a)
                        \o LittleEndian(limits, 2)]

\* the amount a commitment script commits to (the top bit is the flag)
CommitmentAmount(script) ==
  LET a == SubSeq(script, 23, 30)
  IN FromLittleEndian([a EXCEPT ![8] = @ % 128])

\* MsgTx.TxHash: the hash of the transaction without its signature scripts
TxHash(t) ==
  [version |-> t.version,
   ins |-> [i \in 1..Len(t.TxIn) |-> t.TxIn[i].op],
   outs |-> t.TxOut]

\* Lines 197-203 taking the first output of the value.
RECURSIVE FundingOutputIndex_First(_, _, _, _)
FundingOutputIndex_First(outs, cost, i, found) ==
  IF i > Len(outs) THEN found
  ELSE FundingOutputIndex_First(outs, cost, i + 1,
         IF outs[i].value = cost /\ found = -1 THEN i - 1 ELSE found)

\* Lines 197-203: fundingOutputIndex after the loop over the outputs from
\* the i-th on, found being the index so far (-1: none)
RECURSIVE FundingOutputIndex(_, _, _, _)
FundingOutputIndex(outs, cost, i, found) ==
  IF i > Len(outs) THEN found
  ELSE FundingOutputIndex(outs, cost, i + 1, IF outs[i].value = cost THEN i - 1 ELSE found)

\* stake.CheckSStx: the structure of a ticket.  The outputs after the first
\* are checked in order, the even ones as change, the odd ones as
\* commitments, and the first that fails gives the error.
CheckSStx(t) ==
  LET bad(i) ==
        IF (i - 1) % 2 = 0
        THEN IF GetScriptClass(t.TxOut[i].script) # "StakeSubChangeTy"
             THEN "SStx output was not an sstx change output" ELSE "nil"
        ELSE IF GetScriptClass(t.TxOut[i].script) # "NullDataTy"
        THEN "SStx output was not an OP_RETURN push"
        ELSE IF \/ Len(t.TxOut[i].script) < SStxPKHMinOutSize
                \/ Len(t.TxOut[i].script) > SStxPKHMaxOutSize
        THEN "SStx commitment had an invalid length"
        ELSE IF t.TxOut[i].script[2] < 30 \/ t.TxOut[i].script[2] > MaxSingleBytePushLength
        THEN "SStx commitment had an invalid prefix"
        ELSE "nil"
      failing == {i \in 2..Len(t.TxOut) : bad(i) # "nil"}
  IN IF Len(t.TxIn) > MaxInputsPerSStx THEN "SStx has too many inputs"
     ELSE IF Len(t.TxOut) > MaxOutputsPerSStx THEN "SStx has too many outputs"
     ELSE IF Len(t.TxOut) = 0 THEN "SStx has no outputs"
     ELSE IF \E i \in 1..Len(t.TxOut) : t.TxOut[i].version # 0
     THEN "invalid script version found in txOut"
     ELSE IF GetScriptClass(t.TxOut[1].script) # "StakeSubmissionTy"
     THEN "First SStx output should have been OP_SSTX tagged"
     ELSE IF Len(t.TxIn) * 2 + 1 # Len(t.TxOut)
     THEN "The number of inputs in the SStx tx was not the number of outputs/2 - 1"
     ELSE IF failing # {}
     THEN bad(CHOOSE i \in failing : \A j \in failing : i <= j)
     ELSE "nil"

\* Lines 261-264 without the check.
AfterCheck_NoCheck(t) == [err |-> "nil", checked |-> FALSE]

\* Lines 261-264: the ticket is checked; the error, and whether the ticket
\* has passed the check and goes on to be signed
AfterCheck(t) == [err |-> CheckSStx(t), checked |-> CheckSStx(t) = "nil"]

\* Lines 209-259 with the ticket price as the input's amount.
TicketTx_PriceIn(fundingTx, idx, ticketPrice, totalTicketCost, sstx, commitment, chg) ==
  MsgTx(<<[op |-> [hash |-> TxHash(fundingTx), index |-> idx, tree |-> 0],
           valueIn |-> ticketPrice, sig |-> <<>>]>>,
        <<[value |-> ticketPrice, version |-> 0, script |-> sstx],
          [value |-> 0, version |-> 0, script |-> commitment],
          [value |-> 0, version |-> 0, script |-> chg]>>)

\* Lines 209-259: the ticket spending output idx of the funding
\* transaction, with the three scripts given
TicketTx(fundingTx, idx, ticketPrice, totalTicketCost, sstx, commitment, chg) ==
  MsgTx(<<[op |-> [hash |-> TxHash(fundingTx), index |-> idx, tree |-> 0],
           valueIn |-> totalTicketCost, sig |-> <<>>]>>,
        <<[value |-> ticketPrice, version |-> 0, script |-> sstx],
          [value |-> 0, version |-> 0, script |-> commitment],
          [value |-> 0, version |-> 0, script |-> chg]>>)

\* Lines 174-188: the price is asked for, the voting address generated and
\* the cost of the ticket computed.  n addresses were handed out before.
PurchaseStart(priceOutcome, price, addrOutcome, n, feeRate) ==
  LET voting == generateAddress(addrOutcome, n + 1)
      ticketFee == FeeForSerializeSize(feeRate, estimateTicketSize)
  IN IF priceOutcome # "nil" THEN [err |-> priceOutcome, locals |-> NoLocals, addrs |-> n]
     ELSE IF voting.err # "nil" THEN [err |-> voting.err, locals |-> NoLocals, addrs |-> n]
     ELSE [err |-> "nil",
           locals |-> [ticketPrice |-> price, votingAddress |-> voting.address,
                       ticketFee |-> ticketFee, totalTicketCost |-> price + ticketFee,
                       fundingOutputIndex |-> -1],
           addrs |-> n + 1]

\* Lines 297-314: the two addresses of the source account and the listing
\* of the unspent outputs make the RegularTransaction
FundingRequest(o1, o2, listed, utxos, totalTicketCost, n) ==
  LET out == generateAddress(o1, n + 1)
      chg == generateAddress(o2, n + 2)
      none == NewRegularTransaction(<<>>, <<>>, 0, <<>>)
  IN IF out.err # "nil" THEN [err |-> out.err, rt |-> none, addrs |-> n]
     ELSE IF chg.err # "nil" THEN [err |-> chg.err, rt |-> none, addrs |-> n + 1]
     ELSE IF ~listed THEN [err |-> "listUnspentOutputs", rt |-> none, addrs |-> n + 2]
     ELSE [err |-> "nil",
           rt |-> NewRegularTransaction(out.pkScript, chg.pkScript, totalTicketCost, utxos),
           addrs |-> n + 2]

\* Lines 197-264: the output of the funding transaction is looked for, the
\* ticket assembled and checked.  The result is the error, the index
\* found, the ticket (<<>>: none was assembled), whether it passed the
\* check, and the addresses handed out.
AssembleTicket(fundingTx, l, o1, o2, n) ==
  LET idx == FundingOutputIndex(fundingTx.TxOut, l.totalTicketCost, 1, -1)
      fail(e, k) == [err |-> e, index |-> idx, ticket |-> <<>>, checked |-> FALSE,
                     addrs |-> k]
      sstx == PayToSStx(l.votingAddress[1])
      commitAddr == generateAddress(o1, n + 1)
      chgAddr == generateAddress(o2, n + 2)
  IN IF idx = -1 THEN fail("could not find input to fund ticket transaction", n)
     ELSE IF sstx.err # "nil" THEN fail(sstx.err, n)
     ELSE IF commitAddr.err # "nil" THEN fail(commitAddr.err, n)
     ELSE LET commitment == GenerateSStxAddrPush(commitAddr.address[1], l.totalTicketCost,
                                                 defaultTicketFeeLimits)
          IN IF commitment.err # "nil" THEN fail(commitment.err, n + 1)
             ELSE IF chgAddr.err # "nil" THEN fail(chgAddr.err, n + 1)
             ELSE LET chg == PayToSStxChange(chgAddr.address[1])
                  IN IF chg.err # "nil" THEN fail(chg.err, n + 2)
                     ELSE LET t == TicketTx(fundingTx, idx, l.ticketPrice, l.totalTicketCost,
                                            sstx.script, commitment.script, chg.script)
                              c == AfterCheck(t)
                          IN [err |-> c.err, index |-> idx, ticket |-> <<t>>,
                              checked |-> c.checked, addrs |-> n + 2]

\* Lines 153-156 going on to the next notification whatever was returned.
AfterAttempt_Continue(err) == "recv"

\* Lines 137-156 of listenForBlockNotifications: an error of the price
\* query or of the attempt is returned, else the next notification is read
AfterAttempt(err) == IF err = "nil" THEN "recv" ELSE "returned"

\* The ticket buyer's inputs: the price and the ticket relay fee the wallet
\* reports, and the listings of unspent outputs, for a ticket of 100000
\* atoms with a fee of 2980: none; one output that leaves a change equal to
\* the cost of the ticket at 10000 atoms per kB; one that leaves another
\* change; one that leaves none; two that cover the cost only together.
TicketPrices == {100000}
TicketRelayFees == {10000}

\* what the wallet answers to getticketfee and getwalletfee: the fees in
\* coins per kB, here in tenths of an atom
TicketFeeAnswers == {10 * f : f \in TicketRelayFees}
TxFeeAnswers == {10 * f : f \in RelayFees}

\* how a query for a fee ends: with an answer, with the error of
\* sendPostRequest or with that of json.Unmarshal.  MarshalCmd does not
\* fail on the two commands, and a number a JSON answer can hold is finite,
\* so NewAmount returns no error.
FeeQueryOutcomes == {"nil", "sendPostRequest", "Unmarshal"}

\* updateTicketRelayFee and updateTransactionRelayFee, src/ticketbuyer.go:
\* 75-125, as updateFees (49-57) calls them: the fees after the call and
\* the error returned.  A fee is written only when its query has answered,
\* and the second is not asked for when the first has failed.
UpdateFeesResult(o1, a1, o2, a2, ticketFee, txFee) ==
  IF o1 # "nil"
  THEN [err |-> o1, ticketFeeRelayDCR |-> ticketFee, txRelayFeeDCR |-> txFee]
  ELSE IF o2 # "nil"
  THEN [err |-> o2, ticketFeeRelayDCR |-> NewAmount(a1), txRelayFeeDCR |-> txFee]
  ELSE [err |-> "nil", ticketFeeRelayDCR |-> NewAmount(a1), txRelayFeeDCR |-> NewAmount(a2)]
TicketListings ==
  {<<>>,
   <<[op |-> 31, spendable |-> TRUE, account |-> "default", amount |-> 2084900,
      scriptPubKey |-> <<1, 9>>]>>,
   <<[op |-> 32, spendable |-> TRUE, account |-> "default", amount |-> 1500000,
      scriptPubKey |-> <<1, 9>>]>>,
   <<[op |-> 33, spendable |-> TRUE, account |-> "default", amount |-> 1055100,
      scriptPubKey |-> <<1, 9>>]>>,
   <<[op |-> 34, spendable |-> TRUE, account |-> "default", amount |-> 600000,
      scriptPubKey |-> <<1, 9>>],
     [op |-> 35, spendable |-> TRUE, account |-> "default", amount |-> 600000,
      scriptPubKey |-> <<2, 9>>]>>}
AddressOutcomes == {"nil", "NextAddress", "DecodeAddress"}
RecvOutcomes == {"notification", "Canceled", "EOF"}

(***************************************************************************)
(* State.                                                                  *)
(***************************************************************************)
VARIABLES
  tx,            \* CsppJoin.tx
  txInputs,      \* CsppJoin.txInputs: <<>> when nil, else <<the map>>
  myPrevScripts, \* CsppJoin.myPrevScripts
  myIns,         \* CsppJoin.myIns
  change,        \* CsppJoin.change: <<>> when nil, else <<the output>>
  genScripts,    \* CsppJoin.genScripts
  genIndex,      \* CsppJoin.genIndex
  amount,        \* CsppJoin.amount
  lastOp,        \* the operation called last on the skeleton
  lastErr,       \* the error it returned ("nil": none, "panic": it did not return)
  lastBytes,     \* the bytes handed to the last UnmarshalBinary
  checks,        \* the checks the last UnmarshalBinary evaluated, in order
  wire,          \* the bytes a mix session is about to hand to UnmarshalBinary
  sOuts,         \* search: the outputs of the transaction searched
  sValue,        \* search: the value searched for
  sVer,          \* search: the script version searched for
  sScripts,      \* search: the expected scripts
  sRes,          \* search: <<>> before the call, <<result>> after it
  rt,            \* the RegularTransaction: outputScript, changeScript, outputAmount, utxos
  txRelayFeeDCR, \* the relay fee the wallet reported, atoms per kB
  mtx,           \* broadcastTransaction: the transaction being built
  targetFee,     \* broadcastTransaction: the fee the next selection must cover
  inputDetail,   \* the result of the last selection: <<>> or <<txauthor.InputDetail>>
  maxRequiredFee, \* the fee the last selection's inputs require (0: not computed)
  feePc,         \* "new", "loop" (in the fee loop), "select", "selected", "done", "idle"
  feeErr,        \* the error returned ("nil": none)
  feeIter,       \* the passes of the fee loop made so far
  signedTx,      \* <<>> or <<the transaction the wallet signed>>
  publishedTx,   \* <<>> or <<the transaction the wallet published>>
  cfg,           \* loadConfig: the options after parser.Parse
  loadRes,       \* loadConfig: <<>> before the call, <<result>> after it
  tbPc,          \* TicketBuyer: where listenForBlockNotifications and purchaseTicket are
  tbErr,         \* the error listenForBlockNotifications returned ("nil": none)
  recvd,         \* the notifications Recv has returned
  attempts,      \* the calls of purchaseTicket made
  pt,            \* purchaseTicket's locals: ticketPrice, votingAddress, ticketFee, ...
  ticketFeeRelayDCR, \* the ticket relay fee the wallet reported, atoms per kB
  feesErr,       \* what updateFees returned when it was called last ("nil": also never)
  walletAddrs,   \* the addresses the wallet has handed out
  ticket,        \* <<>> or <<the ticket transaction assembled in this attempt>>
  ticketChecked, \* stake.CheckSStx has passed on the ticket of this attempt
  ticketSigned,  \* <<>> or <<the ticket the wallet signed in this attempt>>
  ticketPublished \* <<>> or <<the ticket the wallet published in this attempt>>

joinVars == <<tx, txInputs, myPrevScripts, myIns, change, genScripts, genIndex, amount>>
obsVars == <<lastOp, lastErr, lastBytes, checks>>
searchVars == <<sOuts, sValue, sVer, sScripts, sRes>>
feeVars == <<rt, txRelayFeeDCR, mtx, targetFee, inputDetail, maxRequiredFee, feePc, feeErr,
             feeIter, signedTx, publishedTx>>
cfgVars == <<cfg, loadRes>>
ticketVars == <<tbPc, tbErr, recvd, attempts, pt, ticketFeeRelayDCR, feesErr, walletAddrs, ticket,
                ticketChecked, ticketSigned, ticketPublished>>
vars == <<joinVars, obsVars, wire, searchVars, feeVars, cfgVars, ticketVars>>

\* the skeleton as one value
Cj ==
  [tx |-> tx, txInputs |-> txInputs, myPrevScripts |-> myPrevScripts, myIns |-> myIns,
   change |-> change, genScripts |-> genScripts, genIndex |-> genIndex, amount |-> amount]

\* the skeleton is c, and no operation has been called on it since
JoinIs(c) ==
  /\ tx = c.tx
  /\ txInputs = c.txInputs
  /\ myPrevScripts = c.myPrevScripts
  /\ myIns = c.myIns
  /\ change = c.change
  /\ genScripts = c.genScripts
  /\ genIndex = c.genIndex
  /\ amount = c.amount
  /\ lastOp = "newCsppJoin"
  /\ lastErr = "nil"
  /\ lastBytes = <<>>
  /\ checks = <<>>

\* the skeleton becomes c
JoinBecomes(c) ==
  /\ tx' = c.tx
  /\ txInputs' = c.txInputs
  /\ myPrevScripts' = c.myPrevScripts
  /\ myIns' = c.myIns
  /\ change' = c.change
  /\ genScripts' = c.genScripts
  /\ genIndex' = c.genIndex
  /\ amount' = c.amount

\* the search's variables when the search is not run on its own
SearchIdle ==
  /\ sOuts = <<>>
  /\ sValue = 0
  /\ sVer = 0
  /\ sScripts = <<>>
  /\ sRes = <<>>

\* the fee builder's variables when no transaction is asked for
FeeIdle ==
  /\ rt = NewRegularTransaction(<<>>, <<>>, 0, <<>>)
  /\ txRelayFeeDCR = 0
  /\ mtx = MsgTx(<<>>, <<>>)
  /\ targetFee = 0
  /\ inputDetail = <<>>
  /\ maxRequiredFee = 0
  /\ feePc = "idle"
  /\ feeErr = "nil"
  /\ feeIter = 0
  /\ signedTx = <<>>
  /\ publishedTx = <<>>

\* loadConfig's variables when it is not called
CfgIdle ==
  /\ cfg = defaultConfig
  /\ loadRes = <<>>

\* the ticket buyer's variables when it is not run
TicketIdle ==
  /\ tbPc = "off"
  /\ tbErr = "nil"
  /\ recvd = 0
  /\ attempts = 0
  /\ pt = NoLocals
  /\ ticketFeeRelayDCR = 0
  /\ feesErr = "nil"
  /\ walletAddrs = 0
  /\ ticket = <<>>
  /\ ticketChecked = FALSE
  /\ ticketSigned = <<>>
  /\ ticketPublished = <<>>

(***************************************************************************)
(* The search as a function of its inputs.                                 *)
(***************************************************************************)
SearchInit ==
  /\ sOuts \in SeqsUpTo(SearchOuts, MaxSearchOuts)
  /\ sValue \in Values
  /\ sVer \in ScriptVersions
  /\ sScripts \in SeqsUpTo(SearchScripts, MaxSearchScripts)
  /\ sRes = <<>>
  /\ JoinIs(newCsppJoin(<<>>, 0))
  /\ wire = <<>>
  /\ FeeIdle
  /\ CfgIdle
  /\ TicketIdle

SearchCall ==
  /\ sRes = <<>>
  /\ sRes' = <<constantTimeOutputSearch(sOuts, sValue, sVer, sScripts)>>
  /\ UNCHANGED <<sOuts, sValue, sVer, sScripts, joinVars, obsVars, wire, feeVars, cfgVars,
                 ticketVars>>

SearchNext == SearchCall

SearchSpec == SearchInit /\ [][SearchNext]_vars

(***************************************************************************)
(* The participant: a skeleton made by newCsppJoin and the calls made on   *)
(* it, in any order.  A call that panics ends the program.                 *)
(***************************************************************************)
Init ==
  /\ \E chg \in {<<>>, <<ChangeOut>>}, amt \in MixAmounts : JoinIs(newCsppJoin(chg, amt))
  /\ wire = <<>>
  /\ SearchIdle
  /\ FeeIdle
  /\ CfgIdle
  /\ TicketIdle

Running == lastErr # "panic"

\* addTxIn, lines 49-53
addTxIn(prevScript, in) ==
  /\ Running
  /\ Len(myIns) < MaxIns
  /\ JoinBecomes(addTxInResult(Cj, prevScript, in))
  /\ lastOp' = "addTxIn"
  /\ lastErr' = "nil"
  /\ lastBytes' = <<>>
  /\ checks' = <<>>
  /\ UNCHANGED <<wire, searchVars, feeVars, cfgVars, ticketVars>>

\* Gen, lines 55-72: the wallet's generateAddress fails, or returns the
\* script of a fresh address.
Gen(ok, pkScript) ==
  /\ Running
  /\ JoinBecomes(IF ok THEN GenResult(Cj, pkScript) ELSE Cj)
  /\ lastOp' = "Gen"
  /\ lastErr' = IF ok THEN "nil" ELSE "generateAddress"
  /\ lastBytes' = <<>>
  /\ checks' = <<>>
  /\ UNCHANGED <<wire, searchVars, feeVars, cfgVars, ticketVars>>

\* Confirm, lines 74-110
Confirm(keyFail, signFail) ==
  /\ Running
  /\ LET r == ConfirmFrom(Cj, tx, 1, keyFail, signFail)
     IN /\ tx' = r.tx
        /\ lastErr' = r.err
  /\ lastOp' = "Confirm"
  /\ lastBytes' = <<>>
  /\ checks' = <<>>
  /\ UNCHANGED <<txInputs, myPrevScripts, myIns, change, genScripts, genIndex, amount,
                 wire, searchVars, feeVars, cfgVars, ticketVars>>

\* UnmarshalBinary, lines 123-177
UnmarshalBinary(b) ==
  /\ Running
  /\ LET r == UnmarshalBinaryResult(Cj, b)
     IN /\ JoinBecomes(r.c)
        /\ lastErr' = r.err
        /\ checks' = r.checks
  /\ lastOp' = "UnmarshalBinary"
  /\ lastBytes' = b
  /\ UNCHANGED <<wire, searchVars, feeVars, cfgVars, ticketVars>>

Next ==
  \/ \E a \in OwnArgs : addTxIn(a[1], a[2])
  \/ \E ok \in BOOLEAN, s \in GenScripts : Gen(ok, s)
  \/ \E k \in 0..MaxIns, key \in BOOLEAN :
       Confirm(IF key THEN k ELSE 0, IF key THEN 0 ELSE k)
  \/ \E b \in SessionBytes \cup {MarshalBinary(Cj)} : UnmarshalBinary(b)

Spec == Init /\ [][Next]_vars

(***************************************************************************)
(* UnmarshalBinary on its own: a skeleton built by newCsppJoin, addTxIn    *)
(* and Gen is handed the bytes on the wire, once or again.                 *)
(***************************************************************************)
UnmarshalInit ==
  /\ \E c \in BuiltSkeletons : JoinIs(c)
  /\ wire \in WireBytes
  /\ SearchIdle
  /\ FeeIdle
  /\ CfgIdle
  /\ TicketIdle

UnmarshalNext == UnmarshalBinary(wire)

UnmarshalSpec == UnmarshalInit /\ [][UnmarshalNext]_vars

(***************************************************************************)
(* The fee builder: a RegularTransaction made by NewRegularTransaction,    *)
(* then broadcastTransaction, pass by pass of its fee loop.  The skeleton  *)
(* of the coin join and the search stand idle.                             *)
(***************************************************************************)
FeeInit ==
  /\ rt \in RegularTransactions
  /\ txRelayFeeDCR \in RelayFees
  /\ mtx = MsgTx(<<>>, <<>>)
  /\ targetFee = 0
  /\ inputDetail = <<>>
  /\ maxRequiredFee = 0
  /\ feePc = "new"
  /\ feeErr = "nil"
  /\ feeIter = 0
  /\ signedTx = <<>>
  /\ publishedTx = <<>>
  /\ JoinIs(newCsppJoin(<<>>, 0))
  /\ wire = <<>>
  /\ SearchIdle
  /\ CfgIdle
  /\ TicketIdle

\* Lines 43-54: the transaction with the payment as its one output, and the
\* target fee seeded for one pay-to-pubkey-hash input
SeedTx(r) ==
  MsgTx(<<>>, <<[value |-> r.outputAmount, version |-> 0, script |-> r.outputScript]>>)

SeedFee(r, relayFeePerKb) ==
  FeeForSerializeSize(relayFeePerKb,
    EstimateSerializeSize(<<RedeemP2PKHSigScriptSize>>, SeedTx(r).TxOut, P2PKHPkScriptSize))

\* broadcastTransaction up to its loop, lines 43-54
broadcastTransaction ==
  /\ feePc = "new"
  /\ mtx' = SeedTx(rt)
  /\ targetFee' = SeedFee(rt, txRelayFeeDCR)
  /\ feePc' = "loop"
  /\ UNCHANGED <<rt, txRelayFeeDCR, inputDetail, maxRequiredFee, feeErr, feeIter, signedTx,
                 publishedTx, joinVars, obsVars, wire, searchVars, cfgVars,
                 ticketVars>>

\* The outcomes of rand.Shuffle on a listing: every permutation of its
\* positions.
ShuffleOutcomes(unspentOutputs) == Permutations(1..Len(unspentOutputs))

\* One pass of the loop of broadcastTransaction, lines 56-108: the shuffle
\* with outcome p, the selection, and the return with an error, the restart
\* or the building, signing and publishing of the transaction, where
\* signAndPublishTransaction ends with one of its outcomes.
feeLoop(p) ==
  /\ feePc = "loop"
  /\ rt' = [rt EXCEPT !.utxos = Shuffle(rt.utxos, p)]
  /\ feeIter' = feeIter + 1
  /\ \E r \in {LoopPass(rt, txRelayFeeDCR, mtx, targetFee, Shuffle(rt.utxos, p))} :
     \E outcome \in IF r.kind = "built" THEN PublishOutcomes ELSE {"nil"} :
        /\ inputDetail' = r.inputDetail
        /\ maxRequiredFee' = r.maxRequiredFee
        /\ targetFee' = r.targetFee
        /\ mtx' = r.mtx
        /\ feePc' = IF r.kind = "restart" THEN "loop" ELSE "done"
        /\ feeErr' = IF r.kind = "built" THEN outcome ELSE r.err
        /\ signedTx' = IF r.kind = "built" /\ outcome # "SignTransaction"
                       THEN <<r.mtx>> ELSE <<>>
        /\ publishedTx' = IF r.kind = "built" /\ outcome \in {"nil", "NewHash"}
                          THEN <<r.mtx>> ELSE <<>>
  /\ UNCHANGED <<txRelayFeeDCR, joinVars, obsVars, wire, searchVars, cfgVars,
                 ticketVars>>

FeeNext ==
  \/ broadcastTransaction
  \/ \E p \in ShuffleOutcomes(rt.utxos) : feeLoop(p)

FeeSpec == FeeInit /\ [][FeeNext]_vars

\* A step of broadcastTransaction as its position and its count of passes
\* show it: the seeding, or one pass of the loop.  Every step of FeeNext is
\* such a step, and one is possible exactly when one of FeeNext is, the
\* selection and the building of a pass being defined for every shuffle.
FeeStep ==
  \/ feePc = "new" /\ feePc' = "loop" /\ feeIter' = feeIter
  \/ feePc = "loop" /\ feePc' \in {"loop", "done"} /\ feeIter' = feeIter + 1

\* the loop is not left waiting: a pass that can be made is made
FeeFairSpec == FeeSpec /\ WF_<<feePc, feeIter>>(FeeStep)

(***************************************************************************)
(* selectInputsForAmount on its own: the selection of RegularTransaction   *)
(* and the selection of TicketBuyer, called for the payment and a target   *)
(* fee on a listing of the wallet.                                         *)
(***************************************************************************)
SelectInit ==
  /\ rt \in RegularTransactions
  /\ txRelayFeeDCR \in RelayFees
  /\ mtx = SeedTx(rt)
  /\ targetFee \in {SeedFee(rt, txRelayFeeDCR),
                    FeeForSerializeSize(txRelayFeeDCR,
                      EstimateSerializeSize(<<RedeemP2PKHSigScriptSize, RedeemP2PKHSigScriptSize>>,
                                            SeedTx(rt).TxOut, P2PKHPkScriptSize))}
  /\ inputDetail = <<>>
  /\ maxRequiredFee = 0
  /\ feePc = "select"
  /\ feeErr = "nil"
  /\ feeIter = 0
  /\ signedTx = <<>>
  /\ publishedTx = <<>>
  /\ JoinIs(newCsppJoin(<<>>, 0))
  /\ wire = <<>>
  /\ SearchIdle
  /\ CfgIdle
  /\ TicketIdle

\* RegularTransaction.selectInputsForAmount, part_001:112-197, with shuffle
\* outcome p
rtSelect(p) ==
  /\ feePc = "select"
  /\ \E sel \in {selectInputsForAmount(Shuffle(rt.utxos, p), rt.outputAmount + targetFee)} :
        /\ rt' = [rt EXCEPT !.utxos = Shuffle(rt.utxos, p)]
        /\ inputDetail' = sel.detail
        /\ feeErr' = sel.err
  /\ feePc' = "selected"
  /\ UNCHANGED <<txRelayFeeDCR, mtx, targetFee, maxRequiredFee, feeIter, signedTx,
                 publishedTx, joinVars, obsVars, wire, searchVars, cfgVars,
                 ticketVars>>

\* TicketBuyer.selectInputsForAmount, src/ticketbuyer.go:698-780: the wallet
\* fails to list its unspent outputs, or lists them
tbSelect(listed) ==
  /\ feePc = "select"
  /\ LET sel == IF listed
                THEN tbSelectInputsForAmount(rt.utxos, rt.outputAmount + targetFee)
                ELSE [err |-> "listUnspentOutputs", detail |-> <<>>]
     IN /\ inputDetail' = sel.detail
        /\ feeErr' = sel.err
  /\ feePc' = "selected"
  /\ UNCHANGED <<rt, txRelayFeeDCR, mtx, targetFee, maxRequiredFee, feeIter, signedTx,
                 publishedTx, joinVars, obsVars, wire, searchVars, cfgVars,
                 ticketVars>>

SelectNext ==
  \/ \E p \in ShuffleOutcomes(rt.utxos) : rtSelect(p)
  \/ \E listed \in BOOLEAN : tbSelect(listed)

SelectSpec == SelectInit /\ [][SelectNext]_vars

(***************************************************************************)
(* loadConfig as a function of the options parsed.                         *)
(***************************************************************************)
ConfigInit ==
  /\ cfg \in Configs
  /\ loadRes = <<>>
  /\ JoinIs(newCsppJoin(<<>>, 0))
  /\ wire = <<>>
  /\ SearchIdle
  /\ FeeIdle
  /\ TicketIdle

loadConfigCall ==
  /\ loadRes = <<>>
  /\ loadRes' = <<loadConfig(cfg)>>
  /\ UNCHANGED <<cfg, joinVars, obsVars, wire, searchVars, feeVars, ticketVars>>

ConfigNext == loadConfigCall

ConfigSpec == ConfigInit /\ [][ConfigNext]_vars

(***************************************************************************)
(* The ticket buyer: listenForBlockNotifications (src/ticketbuyer.go:      *)
(* 127-160) and the purchase attempt each notification starts.  The        *)
(* funding transaction is built by broadcastTransaction and feeLoop above. *)
(***************************************************************************)
TicketInit ==
  /\ tbPc = "listen"
  /\ tbErr = "nil"
  /\ recvd = 0
  /\ attempts = 0
  /\ pt = NoLocals
  /\ ticketFeeRelayDCR = 0
  /\ feesErr = "nil"
  /\ walletAddrs = 0
  /\ ticket = <<>>
  /\ ticketChecked = FALSE
  /\ ticketSigned = <<>>
  /\ ticketPublished = <<>>
  /\ rt = NewRegularTransaction(<<>>, <<>>, 0, <<>>)
  /\ txRelayFeeDCR = 0
  /\ mtx = MsgTx(<<>>, <<>>)
  /\ targetFee = 0
  /\ inputDetail = <<>>
  /\ maxRequiredFee = 0
  /\ feePc = "idle"
  /\ feeErr = "nil"
  /\ feeIter = 0
  /\ signedTx = <<>>
  /\ publishedTx = <<>>
  /\ JoinIs(newCsppJoin(<<>>, 0))
  /\ wire = <<>>
  /\ SearchIdle
  /\ CfgIdle

\* the fee builder's variables with no RegularTransaction made, the relay
\* fee being kept
FeeReset ==
  /\ rt' = NewRegularTransaction(<<>>, <<>>, 0, <<>>)
  /\ mtx' = MsgTx(<<>>, <<>>)
  /\ targetFee' = 0
  /\ inputDetail' = <<>>
  /\ maxRequiredFee' = 0
  /\ feePc' = "idle"
  /\ feeErr' = "nil"
  /\ feeIter' = 0
  /\ signedTx' = <<>>
  /\ publishedTx' = <<>>
  /\ UNCHANGED txRelayFeeDCR

\* updateFees, src/ticketbuyer.go:49-57, called before the notifications
\* are listened for, if it is called at all: the two fees are asked of the
\* wallet in turn, the answers being a1 and a2
updateFees(o1, a1, o2, a2) ==
  /\ tbPc = "listen"
  /\ LET r == UpdateFeesResult(o1, a1, o2, a2, ticketFeeRelayDCR, txRelayFeeDCR)
     IN /\ ticketFeeRelayDCR' = r.ticketFeeRelayDCR
        /\ txRelayFeeDCR' = r.txRelayFeeDCR
        /\ feesErr' = r.err
  /\ UNCHANGED <<tbPc, tbErr, recvd, attempts, pt, walletAddrs, ticket, ticketChecked,
                 ticketSigned, ticketPublished, rt, mtx, targetFee, inputDetail,
                 maxRequiredFee, feePc, feeErr, feeIter, signedTx, publishedTx, joinVars,
                 obsVars, wire, searchVars, cfgVars>>

\* Lines 128-134: the notifications are asked for
tbListen(ok) ==
  /\ tbPc = "listen"
  /\ tbPc' = IF ok THEN "recv" ELSE "returned"
  /\ tbErr' = IF ok THEN "nil" ELSE "TransactionNotifications"
  /\ UNCHANGED <<recvd, attempts, pt, ticketFeeRelayDCR, feesErr, walletAddrs, ticket, ticketChecked,
                 ticketSigned, ticketPublished, feeVars, joinVars, obsVars, wire,
                 searchVars, cfgVars>>

\* Lines 136-143: Recv returns a notification, or the error of a cancelled
\* context, after which the loop is left and the function blocks for
\* ever, or another error, which is returned
tbRecv(outcome) ==
  /\ tbPc = "recv"
  /\ outcome = "notification" => recvd < MaxNotifications
  /\ recvd' = IF outcome = "notification" THEN recvd + 1 ELSE recvd
  /\ tbPc' = IF outcome = "notification" THEN "price"
             ELSE IF outcome = "Canceled" THEN "blocked" ELSE "returned"
  /\ tbErr' = IF outcome \in {"notification", "Canceled"} THEN "nil" ELSE outcome
  /\ UNCHANGED <<attempts, pt, ticketFeeRelayDCR, feesErr, walletAddrs, ticket, ticketChecked,
                 ticketSigned, ticketPublished, feeVars, joinVars, obsVars, wire,
                 searchVars, cfgVars>>

\* Lines 145-151: the price is asked for and printed
tbPrice(outcome) ==
  /\ tbPc = "price"
  /\ tbPc' = IF outcome = "nil" THEN "purchase" ELSE AfterAttempt(outcome)
  /\ tbErr' = outcome
  /\ UNCHANGED <<recvd, attempts, pt, ticketFeeRelayDCR, feesErr, walletAddrs, ticket, ticketChecked,
                 ticketSigned, ticketPublished, feeVars, joinVars, obsVars, wire,
                 searchVars, cfgVars>>

\* purchaseTicket up to the cost of the ticket, lines 153 and 172-188
purchaseTicket(priceOutcome, price, addrOutcome) ==
  /\ tbPc = "purchase"
  /\ attempts' = attempts + 1
  /\ LET r == PurchaseStart(priceOutcome, price, addrOutcome, walletAddrs,
                            ticketFeeRelayDCR)
     IN /\ pt' = r.locals
        /\ walletAddrs' = r.addrs
        /\ tbPc' = IF r.err = "nil" THEN "fund" ELSE AfterAttempt(r.err)
        /\ tbErr' = r.err
  /\ ticket' = <<>>
  /\ ticketChecked' = FALSE
  /\ ticketSigned' = <<>>
  /\ ticketPublished' = <<>>
  /\ FeeReset
  /\ UNCHANGED <<recvd, ticketFeeRelayDCR, feesErr, joinVars, obsVars, wire, searchVars, cfgVars>>

\* sendFundingTx up to its call of broadcastTransaction, lines 190 and
\* 297-314
sendFundingTx(o1, o2, listed, utxos) ==
  /\ tbPc = "fund"
  /\ LET r == FundingRequest(o1, o2, listed, utxos, pt.totalTicketCost, walletAddrs)
     IN /\ rt' = r.rt
        /\ walletAddrs' = r.addrs
        /\ feePc' = IF r.err = "nil" THEN "new" ELSE "idle"
        /\ tbPc' = IF r.err = "nil" THEN "funding" ELSE AfterAttempt(r.err)
        /\ tbErr' = r.err
  /\ UNCHANGED <<txRelayFeeDCR, mtx, targetFee, inputDetail, maxRequiredFee, feeErr, feeIter,
                 signedTx, publishedTx, recvd, attempts, pt, ticketFeeRelayDCR, feesErr, ticket,
                 ticketChecked, ticketSigned, ticketPublished, joinVars, obsVars, wire,
                 searchVars, cfgVars>>

\* Lines 190-264: broadcastTransaction has returned; on its error the
\* attempt ends, else the ticket is assembled and checked
assembleTicket(o1, o2) ==
  /\ tbPc = "funding"
  /\ feePc = "done"
  /\ IF feeErr # "nil"
     THEN /\ tbPc' = AfterAttempt(feeErr)
          /\ tbErr' = feeErr
          /\ UNCHANGED <<pt, walletAddrs, ticket, ticketChecked>>
     ELSE LET r == AssembleTicket(mtx, pt, o1, o2, walletAddrs)
          IN /\ pt' = [pt EXCEPT !.fundingOutputIndex = r.index]
             /\ walletAddrs' = r.addrs
             /\ ticket' = r.ticket
             /\ ticketChecked' = r.checked
             /\ tbPc' = IF r.err = "nil" THEN "sign" ELSE AfterAttempt(r.err)
             /\ tbErr' = r.err
  /\ UNCHANGED <<recvd, attempts, ticketFeeRelayDCR, feesErr, ticketSigned, ticketPublished, feeVars,
                 joinVars, obsVars, wire, searchVars, cfgVars>>

\* Lines 266-278: the ticket is handed to the wallet to be signed and
\* published, where signAndPublishTransaction ends with outcome
signTicket(outcome) ==
  /\ tbPc = "sign"
  /\ ticketSigned' = IF outcome # "SignTransaction" THEN ticket ELSE <<>>
  /\ ticketPublished' = IF outcome \in {"nil", "NewHash"} THEN ticket ELSE <<>>
  /\ tbPc' = AfterAttempt(outcome)
  /\ tbErr' = outcome
  /\ UNCHANGED <<recvd, attempts, pt, ticketFeeRelayDCR, feesErr, walletAddrs, ticket, ticketChecked,
                 feeVars, joinVars, obsVars, wire, searchVars, cfgVars>>

TicketNext ==
  \/ \E o1, o2 \in FeeQueryOutcomes, a1 \in TicketFeeAnswers, a2 \in TxFeeAnswers :
        updateFees(o1, a1, o2, a2)
  \/ \E ok \in BOOLEAN : tbListen(ok)
  \/ \E outcome \in RecvOutcomes : tbRecv(outcome)
  \/ \E outcome \in {"nil", "TicketPrice"} : tbPrice(outcome)
  \/ \E priceOutcome \in {"nil", "TicketPrice"}, price \in TicketPrices,
        addrOutcome \in AddressOutcomes : purchaseTicket(priceOutcome, price, addrOutcome)
  \/ \E o1, o2 \in AddressOutcomes, listed \in BOOLEAN, utxos \in TicketListings :
        sendFundingTx(o1, o2, listed, utxos)
  \/ broadcastTransaction
  \/ \E p \in ShuffleOutcomes(rt.utxos) : feeLoop(p)
  \/ \E o1, o2 \in AddressOutcomes : assembleTicket(o1, o2)
  \/ \E outcome \in PublishOutcomes : signTicket(outcome)

TicketSpec == TicketInit /\ [][TicketNext]_vars

(***************************************************************************)
(* Properties of constantTimeOutputSearch, checked under SearchSpec.       *)
(***************************************************************************)
\* the outputs (1-based positions) equal to script s in value, script
\* version and script bytes
MatchesOf(outs, value, scriptVer, s) ==
  {i \in 1..Len(outs) :
     outs[i].value = value /\ outs[i].version = scriptVer /\ outs[i].script = s}

\* the length of the reduced candidate list: the outputs with the value, the
\* script version and the script length of the first expected script
ReducedLen(outs, value, scriptVer, scripts) ==
  IF scripts = <<>> THEN 0
  ELSE Cardinality({i \in 1..Len(outs) :
                      /\ outs[i].value = value
                      /\ outs[i].version = scriptVer
                      /\ Len(outs[i].script) = Len(scripts[1])})

SearchDone == sRes # <<>>

\* C1: for a non-empty set of expected scripts, the search returns a full
\* index list without error if and only if every expected script has exactly
\* one output equal to it in value, script version and script bytes.
C1_SucceedsIffExactlyOneMatch ==
  (SearchDone /\ sScripts # <<>>) =>
    ((sRes[1].err = "nil" /\ Len(sRes[1].indexes) = Len(sScripts))
       <=> \A j \in 1..Len(sScripts) :
             Cardinality(MatchesOf(sOuts, sValue, sVer, sScripts[j])) = 1)

\* C2: when some expected script has no output equal to it in value, script
\* version and script bytes, the search returns errMissingGen and no index
\* list, and it does so only after every expected script was scanned against
\* every candidate of the reduced list.
C2_MissingScriptFailsAfterFullScan ==
  (SearchDone /\ \E j \in 1..Len(sScripts) :
                    MatchesOf(sOuts, sValue, sVer, sScripts[j]) = {}) =>
    /\ sRes[1].err = "errMissingGen"
    /\ sRes[1].indexes = <<>>
    /\ sRes[1].scanned = Len(sScripts)
    /\ sRes[1].steps = Len(sScripts) * ReducedLen(sOuts, sValue, sVer, sScripts)

\* C2 witness: the first of two expected scripts is missing although an
\* output of its length, value and script version with other bytes exists,
\* the second has a match, and the search fails after scanning both.
C2_Witness ==
  /\ SearchDone
  /\ Len(sScripts) = 2
  /\ MatchesOf(sOuts, sValue, sVer, sScripts[1]) = {}
  /\ MatchesOf(sOuts, sValue, sVer, sScripts[2]) # {}
  /\ \E i \in 1..Len(sOuts) :
       /\ sOuts[i].value = sValue
       /\ sOuts[i].version = sVer
       /\ Len(sOuts[i].script) = Len(sScripts[1])
       /\ sOuts[i].script # sScripts[1]
  /\ sRes[1].err = "errMissingGen"
  /\ sRes[1].scanned = 2

\* C3: the number of compare-and-select steps is the number of expected
\* scripts times the length of the reduced candidate list, wherever the
\* matching candidate stands and whether or not there is one; two runs with
\* the same two numbers therefore perform the same number of steps.
C3_StepsAreScriptsTimesCandidates ==
  SearchDone =>
    sRes[1].steps = Len(sScripts) * ReducedLen(sOuts, sValue, sVer, sScripts)

\* C3 witness: two expected scripts, a reduced list of at least two
\* candidates whose first candidate is the match of the first script, and a
\* successful search.
C3_Witness ==
  /\ SearchDone
  /\ sRes[1].err = "nil"
  /\ Len(sScripts) = 2
  /\ Len(sRes[1].scan) >= 2
  /\ sOuts[sRes[1].scan[1] + 1].script = sScripts[1]
  /\ sRes[1].steps = 2 * Len(sRes[1].scan)

(***************************************************************************)
(* Properties of UnmarshalBinary, checked under UnmarshalSpec.             *)
(***************************************************************************)
\* UnmarshalBinary was the last call and its bytes were a transaction
Unmarshalled == lastOp = "UnmarshalBinary" /\ lastErr # "decode"

\* the transaction its bytes held
Joined == Deserialize(lastBytes).tx

\* some input of t has the previous outpoint, Sequence and ValueIn of in
InputPresent(in, t) ==
  \E i \in 1..Len(t.TxIn) :
     /\ t.TxIn[i].op = in.op
     /\ t.TxIn[i].seq = in.seq
     /\ t.TxIn[i].valueIn = in.valueIn

\* the last input of t with the previous outpoint of in, which is the one
\* the outpoint map keeps, has the Sequence and ValueIn of in
InputResolved(in, t) ==
  \E i \in 1..Len(t.TxIn) :
     /\ t.TxIn[i].op = in.op
     /\ \A j \in (i + 1)..Len(t.TxIn) : t.TxIn[j].op # in.op
     /\ t.TxIn[i].seq = in.seq
     /\ t.TxIn[i].valueIn = in.valueIn

\* what each check looks for in t, whatever the other checks find
InputsBad(t) == \E k \in 1..Len(myIns) : ~InputResolved(myIns[k], t)
ChangeBad(t) ==
  /\ change # <<>>
  /\ \A i \in 1..Len(t.TxOut) : t.TxOut[i] # change[1]
GenBad(t) ==
  \E j \in 1..Len(genScripts) :
     MatchesOf(t.TxOut, amount, scriptVersion, genScripts[j]) = {}

\* C4: the joined transaction is validated in the order inputs, change, mix
\* outputs: the error is that of the earliest failing check and no later
\* check is evaluated after it.
C4_ChecksInFixedOrder ==
  Unmarshalled =>
    LET t == Joined
        inputsBad == InputsBad(t)
        changeBad == ChangeBad(t)
    IN /\ inputsBad =>
            lastErr = "coinjoin is missing inputs" /\ checks = <<"inputs">>
       /\ (~inputsBad /\ changeBad) =>
            lastErr = "coinjoin is missing change" /\ checks = <<"inputs", "change">>
       /\ (~inputsBad /\ ~changeBad /\ GenBad(t)) =>
            /\ lastErr = "coinjoin is missing gen output"
            /\ checks = <<"inputs">> \o (IF change # <<>> THEN <<"change">> ELSE <<>>)
                          \o <<"gen">>

\* C4 witness: all three checks would fail and the call reports the missing
\* inputs after evaluating that check alone.
C4_Witness ==
  /\ Unmarshalled
  /\ InputsBad(Joined) /\ ChangeBad(Joined) /\ GenBad(Joined)
  /\ lastErr = "coinjoin is missing inputs"
  /\ checks = <<"inputs">>

\* C5: UnmarshalBinary succeeds only if every own input appears in the
\* joined transaction under its previous outpoint with equal Sequence and
\* ValueIn; when an own input does not, the call fails with "coinjoin is
\* missing inputs".
C5_OwnInputsRequired ==
  Unmarshalled =>
    LET t == Joined
        present == \A k \in 1..Len(myIns) : InputPresent(myIns[k], t)
    IN /\ lastErr = "nil" => present
       /\ ~present => lastErr = "coinjoin is missing inputs"

\* C5 witness: an own input is in the joined transaction under its outpoint
\* with its Sequence and another ValueIn, and the call fails.
C5_Witness ==
  /\ Unmarshalled
  /\ \E k \in 1..Len(myIns) :
       /\ ~InputPresent(myIns[k], Joined)
       /\ \E i \in 1..Len(Joined.TxIn) :
            /\ Joined.TxIn[i].op = myIns[k].op
            /\ Joined.TxIn[i].seq = myIns[k].seq
            /\ Joined.TxIn[i].valueIn # myIns[k].valueIn
  /\ lastErr = "coinjoin is missing inputs"

\* C6: with a declared change, UnmarshalBinary succeeds only if an output of
\* the joined transaction equals it in value, script version and script
\* bytes, and the change check, reached once the inputs are found, fails
\* with "coinjoin is missing change" otherwise; with no declared change no
\* change check is made.
C6_ChangeRequired ==
  Unmarshalled =>
    LET t == Joined
    IN /\ (change # <<>> /\ lastErr = "nil") =>
            \E i \in 1..Len(t.TxOut) :
               /\ t.TxOut[i].value = change[1].value
               /\ t.TxOut[i].version = change[1].version
               /\ t.TxOut[i].script = change[1].script
       /\ (ChangeBad(t) /\ ~InputsBad(t)) =>
            lastErr = "coinjoin is missing change"
       /\ change = <<>> =>
            /\ lastErr # "coinjoin is missing change"
            /\ \A i \in 1..Len(checks) : checks[i] # "change"

\* C6 witness: the change is declared, the inputs are found, an output has
\* the value and script version of the change and another script, and the
\* call fails for the missing change.
C6_Witness ==
  /\ Unmarshalled
  /\ change # <<>>
  /\ myIns # <<>>
  /\ ~InputsBad(Joined)
  /\ \E i \in 1..Len(Joined.TxOut) :
       /\ Joined.TxOut[i].value = change[1].value
       /\ Joined.TxOut[i].version = change[1].version
       /\ Joined.TxOut[i].script # change[1].script
  /\ lastErr = "coinjoin is missing change"

\* C7: after a successful UnmarshalBinary the transaction is the decoded
\* one, txInputs maps every previous outpoint of it to the index of an input
\* with that outpoint, and the output at genIndex[i] has the mixed amount,
\* script version 0 and the script genScripts[i].
C7_SuccessInstallsJoinedTx ==
  (Unmarshalled /\ lastErr = "nil") =>
    /\ tx = Joined
    /\ txInputs # <<>>
    /\ DOMAIN txInputs[1] = {tx.TxIn[i].op : i \in 1..Len(tx.TxIn)}
    /\ \A o \in DOMAIN txInputs[1] :
         /\ txInputs[1][o] \in 0..(Len(tx.TxIn) - 1)
         /\ tx.TxIn[txInputs[1][o] + 1].op = o
    /\ Len(genIndex) = Len(genScripts)
    /\ \A i \in 1..Len(genIndex) :
         /\ genIndex[i] \in 0..(Len(tx.TxOut) - 1)
         /\ tx.TxOut[genIndex[i] + 1].value = amount
         /\ tx.TxOut[genIndex[i] + 1].version = 0
         /\ tx.TxOut[genIndex[i] + 1].script = genScripts[i]

\* C7 witness: a successful call on a skeleton with inputs and a mix script,
\* whose joined transaction also has an output with the mixed amount, the
\* mix script and another script version.
C7_Witness ==
  /\ Unmarshalled
  /\ lastErr = "nil"
  /\ myIns # <<>>
  /\ genIndex # <<>>
  /\ \E i \in 1..Len(tx.TxOut) :
       /\ tx.TxOut[i].value = amount
       /\ tx.TxOut[i].script = genScripts[1]
       /\ tx.TxOut[i].version # 0

\* C8: a second UnmarshalBinary with the bytes of the first returns what the
\* first returned and, on success, leaves genIndex, txInputs and the
\* transaction as the first left them.
C8_SecondCallSameResult ==
  [][(lastOp = "UnmarshalBinary" /\ lastOp' = "UnmarshalBinary"
        /\ lastBytes' = lastBytes) =>
       /\ lastErr' = lastErr
       /\ lastErr = "nil" => (genIndex' = genIndex /\ txInputs' = txInputs /\ tx' = tx)]_vars

\* C8 witness: the state a successful call leaves, and leaves again, with
\* resolved indexes of mix outputs.
C8_Witness ==
  /\ lastOp = "UnmarshalBinary"
  /\ lastBytes = wire
  /\ lastErr = "nil"
  /\ genIndex # <<>>
  /\ myIns # <<>>
  /\ UnmarshalBinaryResult(Cj, wire).c = Cj

(***************************************************************************)
(* Properties of the participant, checked under Spec.                      *)
(***************************************************************************)
\* C9, as claimed: for any skeleton built by newCsppJoin, addTxIn and Gen
\* (Gen has set the mix script), before or after a mix, UnmarshalBinary on
\* the bytes of its own MarshalBinary succeeds and leaves the transaction
\* equal to the one serialized.
C9_RoundTripOfAnySkeleton ==
  [][(genScripts # <<>> /\ lastOp' = "UnmarshalBinary"
        /\ lastBytes' = MarshalBinary(Cj)) =>
       (lastErr' = "nil" /\ tx' = tx)]_vars

\* C9, amended: for a skeleton on which UnmarshalBinary has just succeeded,
\* UnmarshalBinary on the bytes of its own MarshalBinary succeeds and leaves
\* the transaction equal to the one serialized.
C9_RoundTripAfterMix ==
  [][(lastOp = "UnmarshalBinary" /\ lastErr = "nil"
        /\ lastOp' = "UnmarshalBinary" /\ lastBytes' = MarshalBinary(Cj)) =>
       (lastErr' = "nil" /\ tx' = tx)]_vars

\* C9 witness: a successful call on the skeleton's own serialization, which
\* no mix session sent, on a skeleton with inputs and a resolved mix output.
C9_Witness ==
  /\ lastOp = "UnmarshalBinary"
  /\ lastErr = "nil"
  /\ lastBytes = MarshalBinary(Cj)
  /\ lastBytes \notin SessionBytes
  /\ myIns # <<>>
  /\ genIndex # <<>>

\* C10: Confirm never returns success when the previous output script of an
\* own input resolves to a number of addresses other than one: it fails with
\* a Bug-class error.
C10_ConfirmFailsOnMultiAddress ==
  (lastOp = "Confirm"
     /\ \E k \in 1..Len(myPrevScripts) : Len(ExtractPkScriptAddrs(myPrevScripts[k])) # 1)
    => lastErr \notin {"nil"}

\* the previous outpoints of the participant's own inputs
OwnOutPoints == {myIns[k].op : k \in 1..Len(myIns)}

\* C11: a call of Confirm, whether it succeeds or fails part-way, changes
\* nothing of the transaction but the signature script of inputs whose
\* previous outpoint is that of an own input: the inputs of other
\* participants, the outputs and every other field stay as they were.
C11_ConfirmTouchesOwnSignaturesOnly ==
  [][lastOp' = "Confirm" =>
       /\ Len(tx'.TxIn) = Len(tx.TxIn)
       /\ \A i \in 1..Len(tx.TxIn) :
            /\ tx'.TxIn[i] = [tx.TxIn[i] EXCEPT !.sig = tx'.TxIn[i].sig]
            /\ tx'.TxIn[i].sig # tx.TxIn[i].sig => tx.TxIn[i].op \in OwnOutPoints
       /\ tx' = [tx EXCEPT !.TxIn = tx'.TxIn]]_vars

\* C11 witness: Confirm has signed an own input and then failed at the
\* signing of another, in a joined transaction that holds the unsigned input
\* of another participant.
C11_Witness ==
  /\ lastOp = "Confirm"
  /\ lastErr = "txscript.SignatureScript"
  /\ \E i \in 1..Len(tx.TxIn) :
       tx.TxIn[i].op \in OwnOutPoints /\ tx.TxIn[i].sig # <<>>
  /\ \E j \in 1..Len(tx.TxIn) :
       tx.TxIn[j].op \notin OwnOutPoints /\ tx.TxIn[j].sig = <<>>

\* C12: Confirm returns success only on a skeleton on which an earlier
\* UnmarshalBinary succeeded; before that it fails and signs nothing.
\* txInputs is assigned by a successful UnmarshalBinary alone (line 174) and
\* is nil until then.
C12_ConfirmOnlyAfterFinalize ==
  (lastOp = "Confirm" /\ txInputs = <<>>) =>
    /\ lastErr # "nil"
    /\ \A i \in 1..Len(tx.TxIn) : tx.TxIn[i].sig = <<>>

(***************************************************************************)
(* Properties of the fee builder, checked under FeeSpec, FeeFairSpec and   *)
(* SelectSpec.                                                             *)
(***************************************************************************)
\* the script is of a class the selection spends: pay-to-pubkey-hash,
\* pay-to-pubkey, or a stake output wrapping a pay-to-pubkey-hash
Supported(script) ==
  \/ GetScriptClass(script) \in {"PubKeyHashTy", "PubKeyTy"}
  \/ /\ GetScriptClass(script) \in {"StakeGenTy", "StakeRevocationTy", "StakeSubChangeTy"}
     /\ GetScriptClass(Tail(script)) = "PubKeyHashTy"

\* the listed output is a candidate of the selection
Eligible(u) == u.spendable /\ u.account = SourceAccountName /\ Supported(u.scriptPubKey)

\* the listed output an input spends
ListedOutput(in) == CHOOSE u \in {rt.utxos[i] : i \in 1..Len(rt.utxos)} : u.op = in.op

\* the total amount of the candidates of a listing, and of all its outputs
EligibleTotal(us) ==
  SumSeq([i \in 1..Len(us) |-> IF Eligible(us[i]) THEN NewAmount(us[i].amount) ELSE 0])
ListedTotal(us) == SumSeq([i \in 1..Len(us) |-> NewAmount(us[i].amount)])

\* the signature script sizes of the candidates of a listing
EligibleSizes(us) ==
  LET sizeOf(u) == IF GetScriptClass(u.scriptPubKey) = "PubKeyTy"
                   THEN RedeemP2PKSigScriptSize ELSE RedeemP2PKHSigScriptSize
  IN [i \in 1..Cardinality({j \in 1..Len(us) : Eligible(us[j])}) |->
        sizeOf(us[CHOOSE j \in 1..Len(us) :
                    /\ Eligible(us[j])
                    /\ Cardinality({k \in 1..j : Eligible(us[k])}) = i])]

\* the sums of the input amounts and of the output values of a transaction
InputsTotal(t) == SumSeq([i \in 1..Len(t.TxIn) |-> t.TxIn[i].valueIn])
OutputsTotal(t) == SumSeq([i \in 1..Len(t.TxOut) |-> t.TxOut[i].value])

\* the fee at the relay rate for the size estimate of the inputs ins with
\* the outputs outs and, for changeScriptSize > 0, a change output
FeeFor(ins, outs, changeScriptSize) ==
  FeeForSerializeSize(txRelayFeeDCR,
    EstimateSerializeSize(
      [i \in 1..Len(ins) |->
         IF GetScriptClass(ListedOutput(ins[i]).scriptPubKey) = "PubKeyTy"
         THEN RedeemP2PKSigScriptSize ELSE RedeemP2PKHSigScriptSize],
      outs, changeScriptSize))

\* the payment output of the transaction asked for
PaymentOut == [value |-> rt.outputAmount, version |-> 0, script |-> rt.outputScript]

\* broadcastTransaction has built a transaction and handed it to the wallet
Built == feePc = "done" /\ feeErr \in PublishOutcomes

\* a step that is a pass of the fee loop
IsPass == feePc = "loop" /\ feeIter' = feeIter + 1

\* C13, as claimed: for a published transaction the inputs total is at
\* least the target plus the final fee, and the final fee (inputs total less
\* outputs total) is the fee at the relay rate for the size estimate of the
\* final inputs and the final outputs, with or without a change output.
C13_FinalFeeIsFeeOfFinalSet ==
  publishedTx # <<>> =>
    LET t == publishedTx[1]
        finalFee == InputsTotal(t) - OutputsTotal(t)
    IN /\ InputsTotal(t) >= rt.outputAmount + finalFee
       /\ finalFee = FeeFor(t.TxIn, t.TxOut, 0)

\* C13, amended: for a published transaction the inputs total is at least
\* the target plus the final fee; the final fee is the fee at the relay rate
\* for the size estimate of the final inputs, the payment output and a
\* change output of pay-to-pubkey-hash size when a change output was
\* appended, and that fee plus the leftover, which is zero or dust, when
\* none was.
C13_FinalFeeCoversEstimate ==
  publishedTx # <<>> =>
    LET t == publishedTx[1]
        finalFee == InputsTotal(t) - OutputsTotal(t)
        required == FeeFor(t.TxIn, <<PaymentOut>>, P2PKHPkScriptSize)
        leftover == InputsTotal(t) - rt.outputAmount - required
    IN /\ InputsTotal(t) >= rt.outputAmount + finalFee
       /\ finalFee >= required
       /\ Len(t.TxOut) = 2 => finalFee = required
       /\ Len(t.TxOut) = 1 =>
            /\ finalFee = required + leftover
            /\ leftover = 0 \/ IsDustAmount(leftover, P2PKHPkScriptSize, txRelayFeeDCR)

\* C13 witness: a published transaction with no change output, whose fee is
\* more than the fee its size requires: a leftover that is dust went to it.
C13_Witness ==
  /\ publishedTx # <<>>
  /\ feeErr = "nil"
  /\ Len(publishedTx[1].TxOut) = 1
  /\ InputsTotal(publishedTx[1]) - OutputsTotal(publishedTx[1])
       > FeeFor(publishedTx[1].TxIn, <<PaymentOut>>, P2PKHPkScriptSize)

\* C14: a pass of the fee loop returns InsufficientBalance exactly when the
\* candidates of the listing total less than the target plus the target fee
\* of that pass, and then the loop is left with nothing signed or published.
C14_InsufficientBalanceIffShort ==
  [][IsPass =>
       /\ (feeErr' = "InsufficientBalance")
            <=> (EligibleTotal(rt.utxos) < rt.outputAmount + targetFee)
       /\ feeErr' = "InsufficientBalance" =>
            (feePc' = "done" /\ signedTx' = <<>> /\ publishedTx' = <<>>)]_vars

\* C14 witness: InsufficientBalance at the second pass, after a restart
\* raised the target fee above what the candidates cover, on a listing whose
\* outputs, candidates or not, total more than target and fee.
C14_Witness ==
  /\ feePc = "done"
  /\ feeErr = "InsufficientBalance"
  /\ feeIter = 2
  /\ EligibleTotal(rt.utxos) >= rt.outputAmount + SeedFee(rt, txRelayFeeDCR)
  /\ ListedTotal(rt.utxos) >= rt.outputAmount + targetFee
  /\ signedTx = <<>> /\ publishedTx = <<>>

\* the larger of the seed fee and the fee of spending every candidate
FeeBound ==
  LET all == FeeForSerializeSize(txRelayFeeDCR,
               EstimateSerializeSize(EligibleSizes(rt.utxos), <<PaymentOut>>,
                                     P2PKHPkScriptSize))
      seed == SeedFee(rt, txRelayFeeDCR)
  IN IF seed > all THEN seed ELSE all

\* the target fee never decreases and every restart raises it
FeeRises ==
  /\ targetFee' >= targetFee
  /\ (IsPass /\ feePc' = "loop") => targetFee' > targetFee

\* C15, as claimed: the fee loop ends; the target fee never decreases, each
\* restart raises it, and it is at most the fee of spending all candidates
\* and hence at most the total value of the candidates.
C15_FeeBoundedByCandidateValue ==
  /\ [][FeeRises]_vars
  /\ [](feePc \in {"loop", "done"} =>
          /\ targetFee <= FeeForSerializeSize(txRelayFeeDCR,
                            EstimateSerializeSize(EligibleSizes(rt.utxos), <<PaymentOut>>,
                                                  P2PKHPkScriptSize))
          /\ targetFee <= EligibleTotal(rt.utxos))
  /\ <>(feePc = "done")

\* C15, amended: the fee loop ends for every listing, relay fee and target
\* and every outcome of the shuffles; the target fee never decreases, each
\* restart raises it, and it is at most the larger of the seed fee and the
\* fee of spending all candidates.
C15_FeeLoopTerminates ==
  /\ [][FeeRises]_vars
  /\ [](feePc \in {"loop", "done"} => targetFee <= FeeBound)
  /\ <>(feePc = "done")

\* C15 witness: the loop has ended after three restarts, each of which
\* raised the target fee.
C15_Witness ==
  /\ feePc = "done"
  /\ feeIter >= 4
  /\ targetFee > SeedFee(rt, txRelayFeeDCR)

\* C16: the loop has a ceiling of five passes: a fifth pass that raises the
\* fee again ends the builder with FeeConvergenceFailed, which is returned at
\* no other pass, and nothing is published.
C16_FailsAtCeiling ==
  /\ feePc = "loop" => feeIter < 5
  /\ feeErr = "FeeConvergenceFailed" => (feeIter = 5 /\ publishedTx = <<>>)

\* the amount at which the cost of an output to the network is a third of
\* its value at the relay fee: txrules.IsDustAmount holds below it
DustThreshold(scriptSize, relayFeePerKb) ==
  (3 * (8 + 2 + VarIntSerializeSize(scriptSize) + scriptSize + 165) * relayFeePerKb) \div 1000

\* C17: a change amount equal to the dust threshold of the change script
\* size and the relay fee yields no change output, and a change amount one
\* atom above it yields a change output of that amount.
C17_DustBoundary ==
  Built =>
    LET changeAmount == inputDetail[1].Amount - rt.outputAmount - maxRequiredFee
        threshold == DustThreshold(P2PKHPkScriptSize, txRelayFeeDCR)
    IN /\ changeAmount = threshold => Len(mtx.TxOut) = 1
       /\ changeAmount = threshold + 1 =>
            (Len(mtx.TxOut) = 2 /\ mtx.TxOut[2].value = changeAmount)

\* C18: the built transaction pays the target to the output script in its
\* first output; it has a second output, of the leftover after the required
\* fee and paid to the change script, exactly when that leftover is neither
\* zero nor dust, and one output otherwise; the inputs total is the outputs
\* total plus a fee of at least the required fee, and no output value is
\* negative.
C18_ChangeOrAbsorbed ==
  Built =>
    LET t == mtx
        required == FeeFor(t.TxIn, <<PaymentOut>>, P2PKHPkScriptSize)
        leftover == InputsTotal(t) - rt.outputAmount - required
        fee == InputsTotal(t) - OutputsTotal(t)
    IN /\ t.TxIn = inputDetail[1].Inputs
       /\ t.TxOut[1] = PaymentOut
       /\ Len(t.TxOut) \in {1, 2}
       /\ Len(t.TxOut) = 2
            <=> (leftover # 0 /\ ~IsDustAmount(leftover, P2PKHPkScriptSize, txRelayFeeDCR))
       /\ Len(t.TxOut) = 2 =>
            t.TxOut[2] = [value |-> leftover, version |-> 0, script |-> rt.changeScript]
       /\ fee >= required
       /\ fee = required + (IF Len(t.TxOut) = 1 THEN leftover ELSE 0)
       /\ \A i \in 1..Len(t.TxOut) : t.TxOut[i].value >= 0

\* C18 witness: a transaction built at the second pass from two inputs, with
\* a change output.
C18_Witness ==
  /\ Built
  /\ feeIter = 2
  /\ Len(mtx.TxIn) = 2
  /\ Len(mtx.TxOut) = 2
  /\ mtx.TxOut[2].script = rt.changeScript

\* C19: in every pass whose selection succeeds the required fee is computed
\* from the signature script sizes of the selected inputs; the pass restarts
\* the selection, with the target fee set to that fee, exactly when the
\* surplus of the selection over the target is less than it, and otherwise
\* the loop ends in that pass.
C19_RestartIffSurplusShort ==
  [][(IsPass /\ inputDetail' # <<>>) =>
       LET d == inputDetail'[1]
           required == FeeFor(d.Inputs, <<PaymentOut>>, P2PKHPkScriptSize)
           short == d.Amount - rt.outputAmount < required
       IN /\ maxRequiredFee' = required
          /\ d.RedeemScriptSizes =
               [i \in 1..Len(d.Inputs) |->
                  IF GetScriptClass(ListedOutput(d.Inputs[i]).scriptPubKey) = "PubKeyTy"
                  THEN RedeemP2PKSigScriptSize ELSE RedeemP2PKHSigScriptSize]
          /\ short <=> feePc' = "loop"
          /\ short => targetFee' = required
          /\ ~short => (feePc' = "done" /\ targetFee' = targetFee)]_vars

\* C19 witness: one pay-to-pubkey-hash output of 150000 atoms listed for a
\* target of 100000 atoms at 10 atoms per kB; the loop ended in its first
\* pass with a change of 150000 - 100000 - fee.
C19_Witness ==
  /\ Built
  /\ feeIter = 1
  /\ txRelayFeeDCR = 10
  /\ rt.outputAmount = 100000
  /\ Len(rt.utxos) = 1
  /\ Len(mtx.TxIn) = 1
  /\ mtx.TxIn[1].valueIn = 150000
  /\ Len(mtx.TxOut) = 2
  /\ mtx.TxOut[2].value = 150000 - 100000 - maxRequiredFee

\* C20: every input a selection returns spends a listed output that is
\* spendable, of the source account and of a supported script class, and a
\* selection fails for no listed output by itself: only when the candidates
\* total less than the amount asked for (or the wallet lists nothing).
C20_SelectsOnlyEligible ==
  feePc = "selected" =>
    /\ inputDetail # <<>> =>
         \A i \in 1..Len(inputDetail[1].Inputs) :
            Eligible(ListedOutput(inputDetail[1].Inputs[i]))
    /\ feeErr \notin {"nil", "listUnspentOutputs"} =>
         /\ feeErr = "InsufficientBalance"
         /\ EligibleTotal(rt.utxos) < rt.outputAmount + targetFee

(***************************************************************************)
(* Properties of the selection returned by selectInputsForAmount.          *)
(***************************************************************************)
\* the signature script size the selection records for a listed output
SizeOfListed(u) ==
  IF GetScriptClass(u.scriptPubKey) = "PubKeyTy"
  THEN RedeemP2PKSigScriptSize ELSE RedeemP2PKHSigScriptSize

\* C21: a selection returned by selectInputsForAmount has an Amount that is
\* the sum of the amounts of its inputs and at least the target; its
\* Inputs, Scripts and RedeemScriptSizes have one length, entry i of each
\* describes the same listed output, and no listed output is taken twice.
C21_SelectionIsConsistent ==
  (feePc = "selected" /\ inputDetail # <<>>) =>
    LET d == inputDetail[1]
    IN /\ feeErr = "nil"
       /\ d.Amount = SumSeq([i \in 1..Len(d.Inputs) |-> d.Inputs[i].valueIn])
       /\ d.Amount >= rt.outputAmount + targetFee
       /\ Len(d.Scripts) = Len(d.Inputs)
       /\ Len(d.RedeemScriptSizes) = Len(d.Inputs)
       /\ \A i \in 1..Len(d.Inputs) :
             /\ \E j \in 1..Len(rt.utxos) : rt.utxos[j].op = d.Inputs[i].op
             /\ d.Inputs[i].valueIn = NewAmount(ListedOutput(d.Inputs[i]).amount)
             /\ d.Scripts[i] = ListedOutput(d.Inputs[i]).scriptPubKey
             /\ d.RedeemScriptSizes[i] = SizeOfListed(ListedOutput(d.Inputs[i]))
       /\ \A i, j \in 1..Len(d.Inputs) : d.Inputs[i].op = d.Inputs[j].op => i = j

\* a selection of two inputs of different script classes was returned
C21_Witness ==
  /\ feePc = "selected"
  /\ inputDetail # <<>>
  /\ Len(inputDetail[1].Inputs) = 2
  /\ inputDetail[1].RedeemScriptSizes[1] # inputDetail[1].RedeemScriptSizes[2]


(***************************************************************************)
(* Further properties of the skeleton.                                     *)
(***************************************************************************)
\* C27: an UnmarshalBinary that returns an error leaves the skeleton's
\* transaction, inputs map, indexes, own inputs, previous scripts, change
\* and expected scripts as they were before the call.
C27_FailedUnmarshalChangesNothing ==
  [][(lastOp' = "UnmarshalBinary" /\ lastErr' \notin {"nil", "panic"})
       => UNCHANGED joinVars]_vars

\* an UnmarshalBinary has failed on a skeleton that holds the joined
\* transaction of an earlier, successful call
C27_Witness ==
  /\ lastOp = "UnmarshalBinary"
  /\ lastErr \notin {"nil", "panic"}
  /\ txInputs # <<>>
  /\ genIndex # <<>>

\* C28: UnmarshalBinary on a skeleton for which Gen has not succeeded
\* returns an error: the search is never reached with no expected script.
C28_SearchNeedsGenScripts ==
  (lastOp = "UnmarshalBinary" /\ genScripts = <<>>) => lastErr \notin {"nil", "panic"}

\* C29: on a skeleton that has not been finalized, myIns and myPrevScripts
\* have one length, entry i of myPrevScripts is the script passed with
\* entry i of myIns, the transaction's inputs are myIns, its outputs are
\* the declared change alone or none; and every addTxIn appends its input
\* and its script at the end.
C29_AddTxInExtendsParallelArrays ==
  /\ [](txInputs = <<>> =>
          /\ Len(myPrevScripts) = Len(myIns)
          /\ \A i \in 1..Len(myIns) : <<myPrevScripts[i], myIns[i]>> \in OwnArgs
          /\ tx.TxIn = myIns
          /\ tx.TxOut = change)
  /\ [][lastOp' = "addTxIn" =>
          \E a \in OwnArgs :
             /\ myIns' = Append(myIns, a[2])
             /\ myPrevScripts' = Append(myPrevScripts, a[1])
             /\ tx' = [tx EXCEPT !.TxIn = Append(@, a[2])]]_vars

\* two inputs with different previous scripts were added to a skeleton
\* with a declared change, and no joined transaction was taken yet
C29_Witness ==
  /\ txInputs = <<>>
  /\ Len(myIns) = 2
  /\ myPrevScripts[1] # myPrevScripts[2]
  /\ change # <<>>
  /\ lastOp = "addTxIn"

(***************************************************************************)
(* Properties of loadConfig.                                               *)
(***************************************************************************)
\* loadConfig got as far as its choice of the network
ReachedNetwork ==
  /\ loadRes # <<>>
  /\ cfg.flagerr = "nil"
  /\ cfg.PurchaseTicket # cfg.SendTx

\* C30: loadConfig rejects the network option with 'network must be
\* testnet3 or mainnet' exactly when it names neither, and for testnet3 and
\* mainnet it selects the parameters of the network named.
C30_NetworkAcceptedIffKnown ==
  ReachedNetwork =>
    /\ loadRes[1].err = "network must be testnet3 or mainnet"
          <=> cfg.Network \notin {TestNet3Name, MainNetName}
    /\ loadRes[1].err # "network must be testnet3 or mainnet"
          => loadRes[1].activeNet = cfg.Network

(***************************************************************************)
(* Properties of the ticket buyer.                                         *)
(***************************************************************************)
\* the ticket of the attempt is at the signer or about to be handed to it
TicketAtSigner == tbPc = "sign" \/ ticketSigned # <<>>

\* C22: every ticket handed to the signer has exactly one input, which
\* references the output found in the funding transaction and carries
\* ValueIn = ticket price + ticket fee, and exactly three outputs in the
\* order stake submission (value = ticket price, paying the voting
\* address), stake commitment (value 0, committing to ticket price +
\* ticket fee) and stake change (value 0).
C22_TicketShape ==
  TicketAtSigner =>
    /\ Len(ticket) = 1
    /\ ticketSigned # <<>> => ticketSigned = ticket
    /\ LET t == ticket[1]
           cost == pt.ticketPrice + pt.ticketFee
       IN /\ Len(t.TxIn) = 1
          /\ t.TxIn[1].op.hash = TxHash(mtx)
          /\ t.TxIn[1].op.index \in 0..(Len(mtx.TxOut) - 1)
          /\ mtx.TxOut[t.TxIn[1].op.index + 1].value = cost
          /\ t.TxIn[1].valueIn = cost
          /\ Len(t.TxOut) = 3
          /\ t.TxOut[1].value = pt.ticketPrice
          /\ GetScriptClass(t.TxOut[1].script) = "StakeSubmissionTy"
          /\ t.TxOut[1].script = PayToSStx(pt.votingAddress[1]).script
          /\ t.TxOut[2].value = 0
          /\ GetScriptClass(t.TxOut[2].script) = "NullDataTy"
          /\ CommitmentAmount(t.TxOut[2].script) = cost
          /\ t.TxOut[3].value = 0
          /\ GetScriptClass(t.TxOut[3].script) = "StakeSubChangeTy"

\* a ticket of price 100000 and fee 2980 was signed and published
C22_Witness ==
  /\ ticketSigned # <<>>
  /\ ticketPublished = ticketSigned
  /\ ticketSigned[1].TxIn[1].valueIn = 102980
  /\ ticketSigned[1].TxOut[1].value = 100000

\* a ticket as lines 209-259 assemble it, and tickets that differ from it
\* in one point of the structure stake.CheckSStx looks at
SampleTicket ==
  TicketTx(MsgTx(<<>>, <<>>), 0, 100000, 102980, PayToSStx(WalletAddress(1)).script,
           GenerateSStxAddrPush(WalletAddress(2), 102980, defaultTicketFeeLimits).script,
           PayToSStxChange(WalletAddress(3)).script)

MalformedTickets ==
  LET t == SampleTicket
  IN { [t EXCEPT !.TxOut = <<>>],
       [t EXCEPT !.TxOut = SubSeq(t.TxOut, 1, 2)],
       [t EXCEPT !.TxOut = <<t.TxOut[1], t.TxOut[3], t.TxOut[2]>>],
       [t EXCEPT !.TxOut[1].script = PayToAddrScript(WalletAddress(1))],
       [t EXCEPT !.TxOut[3].script = PayToAddrScript(WalletAddress(3))],
       [t EXCEPT !.TxOut[2].script = <<9, 30>>],
       [t EXCEPT !.TxOut[2].script[2] = 20],
       [t EXCEPT !.TxOut[3].version = 1],
       [t EXCEPT !.TxIn = t.TxIn \o t.TxIn] }

\* C23: in every purchase attempt CheckSStx runs on the assembled ticket
\* before any request to sign or publish it: a ticket at the signer has
\* passed the check; a ticket that fails it ends the attempt with the
\* error of the check, is never signed or published, and after the error
\* was returned no step of the buyer follows, so nothing is tried again.
C23_CheckBeforeSign ==
  /\ [](/\ (TicketAtSigner \/ ticketPublished # <<>>) =>
             /\ ticketChecked
             /\ Len(ticket) = 1
             /\ CheckSStx(ticket[1]) = "nil"
        /\ (ticket # <<>> /\ ~ticketChecked) =>
             /\ tbPc = "returned"
             /\ tbErr = CheckSStx(ticket[1])
             /\ tbErr # "nil"
             /\ ticketSigned = <<>>
             /\ ticketPublished = <<>>
        /\ \A t \in MalformedTickets :
             /\ AfterCheck(t).err = CheckSStx(t)
             /\ AfterCheck(t).err # "nil"
             /\ ~AfterCheck(t).checked
             /\ AfterAttempt(AfterCheck(t).err) = "returned")
  /\ [][tbPc = "returned" => tbPc' = "returned" /\ attempts' = attempts]_vars

\* an assembled and checked ticket waits to be handed to the signer
C23_Witness ==
  /\ tbPc = "sign"
  /\ ticketChecked
  /\ ticket # <<>>
  /\ ticketSigned = <<>>
  /\ CheckSStx(SampleTicket) = "nil"

\* funding transactions with up to three outputs of the values 102980 and
\* 5000, by the values of their outputs
FundingTxsByValues ==
  {MsgTx(<<>>, [i \in 1..Len(v) |-> [value |-> v[i], version |-> 0,
                                      script |-> PayToAddrScript(WalletAddress(i))]]) :
     v \in UNION {[1..n -> {102980, 5000}] : n \in 0..3}}

\* the index of the last output of value cost, -1 if there is none
LastOutputOfValue(outs, cost) ==
  IF \E i \in 1..Len(outs) : outs[i].value = cost
  THEN (CHOOSE i \in 1..Len(outs) :
          /\ outs[i].value = cost
          /\ \A j \in (i + 1)..Len(outs) : outs[j].value # cost) - 1
  ELSE -1

\* C24: the funding output purchaseTicket selects is the last output of
\* the funding transaction whose value equals the total ticket cost, so
\* that a change output of the same value, which has the higher index, is
\* the one used; when no output has that value the attempt fails with
\* 'could not find input to fund ticket transaction' and builds no ticket.
C24_LastMatchingOutput ==
  /\ ticket # <<>> =>
       /\ pt.fundingOutputIndex = LastOutputOfValue(mtx.TxOut, pt.totalTicketCost)
       /\ pt.fundingOutputIndex >= 0
       /\ ticket[1].TxIn[1].op.index = pt.fundingOutputIndex
  /\ tbErr = "could not find input to fund ticket transaction" =>
       /\ ticket = <<>>
       /\ \A i \in 1..Len(mtx.TxOut) : mtx.TxOut[i].value # pt.totalTicketCost
  /\ \A f \in FundingTxsByValues :
       LET l == [NoLocals EXCEPT !.ticketPrice = 100000, !.ticketFee = 2980,
                                 !.totalTicketCost = 102980,
                                 !.votingAddress = <<WalletAddress(1)>>]
           r == AssembleTicket(f, l, "nil", "nil", 1)
       IN /\ r.index = LastOutputOfValue(f.TxOut, 102980)
          /\ r.index = -1 =>
               /\ r.err = "could not find input to fund ticket transaction"
               /\ r.ticket = <<>>
          /\ r.index >= 0 =>
               /\ r.err = "nil"
               /\ r.ticket[1].TxIn[1].op.index = r.index

\* the change of the funding transaction equals the cost of the ticket,
\* and the ticket spends the change output, which has index 1
C24_Witness ==
  /\ ticket # <<>>
  /\ Len(mtx.TxOut) = 2
  /\ mtx.TxOut[1].value = pt.totalTicketCost
  /\ mtx.TxOut[2].value = pt.totalTicketCost
  /\ ticket[1].TxIn[1].op.index = 1

\* a purchase attempt has been started and has not returned
AttemptRunning == tbPc \in {"fund", "funding", "sign"}

\* C25: each notification received starts at most one purchase attempt
\* and attempts do not overlap: an attempt starts only for the
\* notification read last, the next notification is read only when every
\* attempt started has returned, and once the price query or an attempt
\* has failed no notification is read and no attempt is started.
C25_OneAttemptPerNotification ==
  /\ [](/\ attempts <= recvd
        /\ recvd <= attempts + 1
        /\ AttemptRunning => attempts = recvd
        /\ tbErr # "nil" => tbPc = "returned")
  /\ [][/\ attempts' # attempts =>
             /\ attempts' = attempts + 1
             /\ attempts' = recvd
             /\ ~AttemptRunning
        /\ recvd' # recvd =>
             /\ recvd' = recvd + 1
             /\ tbPc = "recv"
             /\ ~AttemptRunning
             /\ attempts = recvd
        /\ tbErr # "nil" => attempts' = attempts /\ recvd' = recvd]_vars

\* the second notification was read after the first attempt had published
\* its ticket, and the second attempt is running
C25_Witness ==
  /\ recvd = 2
  /\ attempts = 2
  /\ AttemptRunning
  /\ tbErr = "nil"

\* the errors that come from a call to the wallet
RpcErrors ==
  {"TicketPrice", "NextAddress", "listUnspentOutputs", "SignTransaction",
   "PublishTransaction"}

\* the attempt for the last notification has returned the error of a call
\* to the wallet
AttemptAbandoned ==
  /\ tbPc = "returned"
  /\ attempts > 0
  /\ attempts = recvd
  /\ tbErr \in RpcErrors

\* C26: whenever a purchase attempt is abandoned because a call to the
\* wallet returned an error, no transaction was published in that attempt,
\* neither the funding transaction nor the ticket.
C26_NothingPublishedWhenAbandoned ==
  AttemptAbandoned => publishedTx = <<>> /\ ticketPublished = <<>>

====
